---- MODULE Spec2Model ----
(***************************************************************************)
(* State-machine model of the Wairstro background services:                *)
(*   - SignalService        (src/main/services/signal-service.ts)          *)
(*   - McpClientService     (src/main/services/McpClientService.ts)        *)
(*   - WorkerAgent          (src/main/services/orchestrator/worker-agent.ts)*)
(*   - ado:runAgentTask     (src/main/ipc/handlers/ado.ts)                 *)
(*   - OrchestratorService  (unnamed/part_002)                             *)
(*   - AdoBoardService      (unnamed/part_002)                             *)
(*   - PreviewService       (src/main/services/McpClientService.ts)        *)
(*   - useKanbanController  (unnamed/part_007)                             *)
(* Strings that the code trims, splits or scans are sequences of           *)
(* one-character strings, so that the conversions are computed.            *)
(***************************************************************************)
EXTENDS Integers, Sequences, FiniteSets, TLC

VARIABLES
    \* ---- SignalService ----
    locks,          \* state.locks: normalized path -> owner (own properties)
    announcements,  \* state.announcements
    sigCall,        \* the last call made on the service and what it returned
    sigEmit,        \* payload of the 'updated' event the last call emitted
    scn,            \* observer of the acquire/acquire/release/release/acquire scenario
    sent,           \* every announcement broadcast() has created, in call order
    \* ---- McpClientService ----
    mcp,            \* the client object's fields and the promises it handed out
    mcpNow,         \* the event loop's clock, in milliseconds
    procs,          \* the tool-server child processes spawned so far
    stream,         \* the bytes the tool server's stdout has yet to deliver
    ado,            \* one runAgentTask run: its worker agent, handlers and repair monitor
    \* ---- OrchestratorService ----
    orch,           \* the service's maps and conversation, report reads in flight
    \* ---- AdoBoardService ----
    board           \* one moveItemToColumn call and the PATCH requests it has sent

sigVars == <<locks, announcements, sigCall, sigEmit, scn, sent>>
mcpVars == <<mcp, mcpNow, procs, stream>>
adoVars == <<ado>>
orchVars == <<orch>>
boardVars == <<board>>

vars == <<sigVars, mcpVars, adoVars, orchVars, boardVars>>
nonSigVars == <<mcpVars, adoVars, orchVars, boardVars>>
nonMcpVars == <<sigVars, adoVars, orchVars, boardVars>>
nonAdoVars == <<sigVars, mcpVars, orchVars, boardVars>>
nonOrchVars == <<sigVars, mcpVars, adoVars, boardVars>>
nonBoardVars == <<sigVars, mcpVars, adoVars, orchVars>>

(***************************************************************************)
(* Helpers on character sequences                                          *)
(***************************************************************************)
Min(S) == CHOOSE x \in S : \A y \in S : x <= y
Max(S) == CHOOSE x \in S : \A y \in S : x >= y

IsWhitespace(c) == c \in {" ", "\t", "\n", "\r"}

RECURSIVE TrimStart(_)
TrimStart(s) == IF s # <<>> /\ IsWhitespace(Head(s)) THEN TrimStart(Tail(s)) ELSE s
RECURSIVE TrimEnd(_)
TrimEnd(s) ==
    IF s # <<>> /\ IsWhitespace(s[Len(s)]) THEN TrimEnd(SubSeq(s, 1, Len(s) - 1)) ELSE s

\* String.prototype.trim
Trim(s) == TrimEnd(TrimStart(s))

\* Subsystems that a specification leaves out stay in these states.
SigIdle ==
    /\ locks = <<>>
    /\ announcements = <<>>
    /\ sigCall = [op |-> "none", agentId |-> <<>>, filePath |-> <<>>, ret |-> FALSE]
    /\ sigEmit = <<>>
    /\ scn = [a |-> <<"A">>, b |-> <<"B">>, f |-> <<"f">>, step |-> 0, obs |-> <<>>]
    /\ sent = <<>>

McpIdle ==
    /\ mcp = <<>>
    /\ mcpNow = 0
    /\ procs = <<>>
    /\ stream = <<>>

AdoIdle == ado = <<>>

OrchIdle == orch = <<>>

BoardIdle == board = <<>>

(***************************************************************************)
(* SignalService                                                           *)
(***************************************************************************)
MAX_ANNOUNCEMENTS == 200

Undefined == <<"undefined">>
NoEvent == <<>>
\* What a property lookup that falls through to Object.prototype yields: the
\* lock table is a plain object literal, so a key such as "constructor" reads
\* as an inherited function even though the table holds no such lock.
Inherited == <<"[inherited]">>

ObjectPrototypeKeys == { <<"c","o","n","s","t","r","u","c","t","o","r">> }

normalizeFilePath(filePath) ==
    LET t == Trim(filePath)
    IN  [i \in 1..Len(t) |-> IF t[i] = "\\" THEN "/" ELSE t[i]]

\* this.state.locks[key]
LockLookup(key) ==
    IF key \in DOMAIN locks THEN locks[key]
    ELSE IF key \in ObjectPrototypeKeys THEN Inherited
    ELSE Undefined

Truthy(v) == v # Undefined /\ v # <<>>

getState == [locks |-> locks, announcements |-> announcements]
getStateNext == [locks |-> locks', announcements |-> announcements']

\* emit('updated', this.getState()) after the mutation of the calling method
emitStateUpdated == sigEmit' = <<getStateNext>>

\* Inputs the callers pass
AgentInputs == { <<"A">>, <<"B">>, <<" ", "A">>, <<" ">> }
PathInputs ==
    { <<"f">>, <<"d", "\\", "f">>, <<"d", "/", "f">>, <<" ">>,
      <<"c","o","n","s","t","r","u","c","t","o","r">> }
MessageInputs == { <<"h", "i">>, <<" ">> }

MaxBroadcasts == 1
\* Values Date.now() returns
ClockReadings == {1000, 2000}

\* The scenario observer: follows acquire(a,f), acquire(b,f), release(b,f),
\* release(a,f), acquire(b,f) made in that order on path f, the first while f
\* is unlocked.  Calls on other paths and broadcasts do not disturb it.
ScnExpected(k) ==
    CASE k = 1 -> [op |-> "acquireLock", agentId |-> scn.a]
      [] k = 2 -> [op |-> "acquireLock", agentId |-> scn.b]
      [] k = 3 -> [op |-> "releaseLock", agentId |-> scn.b]
      [] k = 4 -> [op |-> "releaseLock", agentId |-> scn.a]
      [] k = 5 -> [op |-> "acquireLock", agentId |-> scn.b]

ScnObserve(op, agentId, filePath, ret) ==
    LET call == [op |-> op, agentId |-> agentId]
        obs == [ret |-> ret,
                owner |-> IF normalizeFilePath(scn.f) \in DOMAIN locks'
                          THEN locks'[normalizeFilePath(scn.f)] ELSE Undefined]
    IN  IF filePath # scn.f
        THEN IF normalizeFilePath(filePath) = normalizeFilePath(scn.f)
             THEN scn' = [scn EXCEPT !.step = 0, !.obs = <<>>]
             ELSE UNCHANGED scn
        ELSE IF scn.step < 5 /\ scn.step > 0 /\ call = ScnExpected(scn.step + 1)
        THEN scn' = [scn EXCEPT !.step = @ + 1, !.obs = Append(@, obs)]
        ELSE IF call = ScnExpected(1) /\ LockLookup(normalizeFilePath(scn.f)) = Undefined
        THEN scn' = [scn EXCEPT !.step = 1, !.obs = <<obs>>]
        ELSE scn' = [scn EXCEPT !.step = 0, !.obs = <<>>]

SigReturn(op, agentId, filePath, ret) ==
    /\ sigCall' = [op |-> op, agentId |-> agentId, filePath |-> filePath, ret |-> ret]
    /\ ScnObserve(op, agentId, filePath, ret)

acquireLock(agentId, filePath) ==
    LET normalizedAgentId == Trim(agentId)
        normalizedPath == normalizeFilePath(filePath)
        currentOwner == LockLookup(normalizedPath)
    IN  /\ UNCHANGED <<announcements, sent>>
        /\ IF normalizedAgentId = <<>> \/ normalizedPath = <<>>
           THEN /\ UNCHANGED locks
                /\ sigEmit' = NoEvent
                /\ SigReturn("acquireLock", agentId, filePath, FALSE)
           ELSE IF Truthy(currentOwner) /\ currentOwner # normalizedAgentId
           THEN /\ UNCHANGED locks
                /\ sigEmit' = NoEvent
                /\ SigReturn("acquireLock", agentId, filePath, FALSE)
           ELSE /\ locks' = [p \in DOMAIN locks \cup {normalizedPath} |->
                                IF p = normalizedPath THEN normalizedAgentId ELSE locks[p]]
                /\ emitStateUpdated
                /\ SigReturn("acquireLock", agentId, filePath, TRUE)

\* releaseLock without the ownership check
releaseLockAnyOwner(agentId, filePath) ==
    LET normalizedAgentId == Trim(agentId)
        normalizedPath == normalizeFilePath(filePath)
    IN  /\ UNCHANGED <<announcements, sent>>
        /\ IF normalizedAgentId = <<>> \/ normalizedPath = <<>>
              \/ normalizedPath \notin DOMAIN locks
           THEN /\ UNCHANGED locks
                /\ sigEmit' = NoEvent
                /\ SigReturn("releaseLock", agentId, filePath, FALSE)
           ELSE /\ locks' = [p \in DOMAIN locks \ {normalizedPath} |-> locks[p]]
                /\ emitStateUpdated
                /\ SigReturn("releaseLock", agentId, filePath, TRUE)

releaseLock(agentId, filePath) ==
    LET normalizedAgentId == Trim(agentId)
        normalizedPath == normalizeFilePath(filePath)
        currentOwner == LockLookup(normalizedPath)
    IN  /\ UNCHANGED <<announcements, sent>>
        /\ IF normalizedAgentId = <<>> \/ normalizedPath = <<>>
           THEN /\ UNCHANGED locks
                /\ sigEmit' = NoEvent
                /\ SigReturn("releaseLock", agentId, filePath, FALSE)
           ELSE IF currentOwner # normalizedAgentId
           THEN /\ UNCHANGED locks
                /\ sigEmit' = NoEvent
                /\ SigReturn("releaseLock", agentId, filePath, FALSE)
           ELSE \* delete this.state.locks[normalizedPath]
                /\ locks' = [p \in DOMAIN locks \ {normalizedPath} |-> locks[p]]
                /\ emitStateUpdated
                /\ SigReturn("releaseLock", agentId, filePath, TRUE)

\* broadcast that trims the list from its newest end
broadcastKeepOldest(agentId, message, now) ==
    LET normalizedAgentId == Trim(agentId)
        normalizedMessage == Trim(message)
        announcement == [agentId |-> normalizedAgentId,
                         message |-> normalizedMessage,
                         timestamp |-> now]
        pushed == Append(announcements, announcement)
    IN  /\ UNCHANGED <<locks, scn>>
        /\ IF normalizedAgentId = <<>> \/ normalizedMessage = <<>>
           THEN /\ UNCHANGED <<announcements, sent>>
                /\ sigEmit' = NoEvent
                /\ sigCall' = [op |-> "broadcast", agentId |-> agentId,
                               filePath |-> <<>>, ret |-> FALSE]
           ELSE /\ announcements' =
                       IF Len(pushed) > MAX_ANNOUNCEMENTS
                       THEN SubSeq(pushed, 1, MAX_ANNOUNCEMENTS)
                       ELSE pushed
                /\ sent' = Append(sent, announcement)
                /\ emitStateUpdated
                /\ sigCall' = [op |-> "broadcast", agentId |-> agentId,
                               filePath |-> <<>>, ret |-> TRUE]

broadcast(agentId, message, now) ==
    LET normalizedAgentId == Trim(agentId)
        normalizedMessage == Trim(message)
        announcement == [agentId |-> normalizedAgentId,
                         message |-> normalizedMessage,
                         timestamp |-> now]
        pushed == Append(announcements, announcement)
    IN  /\ UNCHANGED <<locks, scn>>
        /\ IF normalizedAgentId = <<>> \/ normalizedMessage = <<>>
           THEN /\ UNCHANGED <<announcements, sent>>
                /\ sigEmit' = NoEvent
                /\ sigCall' = [op |-> "broadcast", agentId |-> agentId,
                               filePath |-> <<>>, ret |-> FALSE]
           ELSE \* push, then splice(0, length - MAX_ANNOUNCEMENTS)
                /\ announcements' =
                       IF Len(pushed) > MAX_ANNOUNCEMENTS
                       THEN SubSeq(pushed, Len(pushed) - MAX_ANNOUNCEMENTS + 1, Len(pushed))
                       ELSE pushed
                /\ sent' = Append(sent, announcement)
                /\ emitStateUpdated
                /\ sigCall' = [op |-> "broadcast", agentId |-> agentId,
                               filePath |-> <<>>, ret |-> TRUE]

AcquireLock == \E a \in AgentInputs, p \in PathInputs : acquireLock(a, p)
ReleaseLock == \E a \in AgentInputs, p \in PathInputs : releaseLock(a, p)
Broadcast ==
    /\ Len(announcements) < MaxBroadcasts
    /\ \E a \in AgentInputs, m \in MessageInputs, now \in ClockReadings :
          broadcast(a, m, now)

\* The scenario's agents and path: two ids that differ once trimmed and a
\* path that names a file.
ScnChoices ==
    { [a |-> <<"A">>, b |-> <<"B">>, f |-> <<"f">>, step |-> 0, obs |-> <<>>],
      [a |-> <<" ", "A">>, b |-> <<"B">>, f |-> <<"d", "\\", "f">>, step |-> 0, obs |-> <<>>] }

SigInit ==
    /\ locks = <<>>
    /\ announcements = <<>>
    /\ sigCall = [op |-> "none", agentId |-> <<>>, filePath |-> <<>>, ret |-> FALSE]
    /\ sigEmit = NoEvent
    /\ scn \in {s \in ScnChoices : Trim(s.a) # Trim(s.b)}
    /\ sent = <<>>
    /\ McpIdle
    /\ AdoIdle
    /\ OrchIdle
    /\ BoardIdle

SigNext ==
    \/ AcquireLock /\ UNCHANGED nonSigVars
    \/ ReleaseLock /\ UNCHANGED nonSigVars
    \/ Broadcast /\ UNCHANGED nonSigVars

SpecSignal == SigInit /\ [][SigNext]_vars

(***************************************************************************)
(* SignalService under a long run of broadcasts                            *)
(***************************************************************************)
MaxSent == 210

\* One agent announcing; a blank id or message is the invalid input
AnnouncerInputs == { <<" ", "A">>, <<" ">> }

\* Date.now() of the next call: the clock has moved on since the last
\* announcement was stamped
NextStamp == IF sent = <<>> THEN 1 ELSE sent[Len(sent)].timestamp + 1

BroadcastMany ==
    /\ Len(sent) < MaxSent
    /\ \E a \in AnnouncerInputs, m \in MessageInputs : broadcast(a, m, NextStamp)

BroadcastInit ==
    /\ SigIdle
    /\ McpIdle
    /\ AdoIdle
    /\ OrchIdle
    /\ BoardIdle

BroadcastNext == BroadcastMany /\ UNCHANGED nonSigVars

SpecBroadcast == BroadcastInit /\ [][BroadcastNext]_vars

(***************************************************************************)
(* McpClientService: text helpers                                          *)
(***************************************************************************)
DigitChars == <<"0", "1", "2", "3", "4", "5", "6", "7", "8", "9">>
UpperChars ==
    <<"A","B","C","D","E","F","G","H","I","J","K","L","M",
      "N","O","P","Q","R","S","T","U","V","W","X","Y","Z">>
LowerChars ==
    <<"a","b","c","d","e","f","g","h","i","j","k","l","m",
      "n","o","p","q","r","s","t","u","v","w","x","y","z">>

DigitSet == {DigitChars[d] : d \in 1..10}
UpperSet == {UpperChars[i] : i \in 1..26}
DigitValueOf == [c \in DigitSet |-> (CHOOSE d \in 1..10 : DigitChars[d] = c) - 1]
LowerOf == [c \in UpperSet |-> LowerChars[CHOOSE i \in 1..26 : UpperChars[i] = c]]

IsDigit(c) == c \in DigitSet
DigitValue(c) == DigitValueOf[c]
ToLower(c) == IF c \in UpperSet THEN LowerOf[c] ELSE c

\* s.slice(i - 1).toLowerCase().startsWith(name), for a lower-case name
StartsWithIgnoreCase(s, i, name) ==
    /\ i + Len(name) - 1 <= Len(s)
    /\ \A j \in 1..Len(name) : ToLower(s[i + j - 1]) = name[j]

\* String(n) for a natural number
RECURSIVE ToDigits(_)
ToDigits(n) ==
    IF n < 10 THEN <<DigitChars[n + 1]>>
    ELSE ToDigits(n \div 10) \o <<DigitChars[(n % 10) + 1]>>

\* Number(text) for a run of decimal digits
RECURSIVE ParseDigits(_)
ParseDigits(ds) ==
    IF ds = <<>> THEN 0
    ELSE 10 * ParseDigits(SubSeq(ds, 1, Len(ds) - 1)) + DigitValue(ds[Len(ds)])

\* Buffer.indexOf(pat): positions are 1-based here and 0 stands for JS -1
RECURSIVE IndexFrom(_, _, _)
IndexFrom(buf, pat, i) ==
    IF i + Len(pat) - 1 > Len(buf) THEN 0
    ELSE IF \A j \in 1..Len(pat) : buf[i + j - 1] = pat[j] THEN i
    ELSE IndexFrom(buf, pat, i + 1)

IndexOf(buf, pat) == IndexFrom(buf, pat, 1)

\* The first position at or after i whose character is not in the class, or
\* Len(s) + 1
RECURSIVE SkipWhile(_, _, _)
SkipWhile(s, i, class) ==
    IF i > Len(s) \/ s[i] \notin class THEN i ELSE SkipWhile(s, i + 1, class)

WhitespaceSet == {" ", "\t", "\n", "\r"}

CRLF == <<"\r", "\n">>
HeaderTerminator == CRLF \o CRLF
ContentLengthName == <<"c","o","n","t","e","n","t","-","l","e","n","g","t","h",":">>
ContentLengthHeader == <<"C","o","n","t","e","n","t","-","L","e","n","g","t","h",":", " ">>

\* header.match(/Content-Length:\s*(\d+)/i): the captured digits, <<>> for null
RECURSIVE MatchContentLengthFrom(_, _)
MatchContentLengthFrom(header, i) ==
    IF i + Len(ContentLengthName) - 1 > Len(header) THEN <<>>
    ELSE IF StartsWithIgnoreCase(header, i, ContentLengthName)
    THEN LET d == SkipWhile(header, i + Len(ContentLengthName), WhitespaceSet)
             e == SkipWhile(header, d, DigitSet)
         IN  IF e > d THEN SubSeq(header, d, e - 1)
             ELSE MatchContentLengthFrom(header, i + 1)
    ELSE MatchContentLengthFrom(header, i + 1)

MatchContentLength(header) == MatchContentLengthFrom(header, 1)

\* /^Content-Length:/i.test(prefix)
\* processIncomingBuffer without the wait for the rest of a header
LooksLikeHeaderNever(prefix) == FALSE

LooksLikeHeader(prefix) == StartsWithIgnoreCase(prefix, 1, ContentLengthName)

\* processIncomingBuffer without the dispatch: what is left in the buffer and
\* the message texts handed to handleMessage, in order.
RECURSIVE ExtractMessages(_, _)
ExtractMessages(buf, out) ==
    IF Len(buf) = 0 THEN [buffer |-> buf, messages |-> out]
    ELSE
    LET headerEnd == IndexOf(buf, HeaderTerminator)
    IN  IF headerEnd # 0
        THEN LET header == SubSeq(buf, 1, headerEnd - 1)
                 contentLengthMatch == MatchContentLength(header)
             IN  IF contentLengthMatch = <<>>
                 THEN ExtractMessages(SubSeq(buf, headerEnd + 4, Len(buf)), out)
                 ELSE LET contentLength == ParseDigits(contentLengthMatch)
                          frameLength == (headerEnd - 1) + 4 + contentLength
                      IN  IF Len(buf) < frameLength
                          THEN [buffer |-> buf, messages |-> out]
                          ELSE ExtractMessages(
                                   SubSeq(buf, frameLength + 1, Len(buf)),
                                   Append(out, SubSeq(buf, headerEnd + 4, frameLength)))
        ELSE LET maybeHeaderPrefix == SubSeq(buf, 1, Min({Len(buf), 32}))
                 newlineIndex == IndexOf(buf, <<"\n">>)
             IN  IF LooksLikeHeader(maybeHeaderPrefix)
                 THEN [buffer |-> buf, messages |-> out]
                 ELSE IF newlineIndex = 0
                 THEN [buffer |-> buf, messages |-> out]
                 ELSE LET line == Trim(SubSeq(buf, 1, newlineIndex - 1))
                          rest == SubSeq(buf, newlineIndex + 1, Len(buf))
                      IN  IF line = <<>> THEN ExtractMessages(rest, out)
                          ELSE ExtractMessages(rest, Append(out, line))

\* writeMessage's framing: Content-Length: <n>\r\n\r\n<body>
Frame(body) == ContentLengthHeader \o ToDigits(Len(body)) \o HeaderTerminator \o body

(***************************************************************************)
(* McpClientService: JSON-RPC messages                                     *)
(***************************************************************************)
DEFAULT_TIMEOUT_MS == 30000

MaxRequests == 2     \* requests issued in one run
MaxChildren == 2     \* tool-server processes spawned in one run
\* A chunk may leave the start of one frame in the receive buffer
MaxBuffered == Len(ContentLengthHeader)
\* The clock moves in half timeouts and stops once the first timeout is due
TickMs == DEFAULT_TIMEOUT_MS \div 2
MaxNow == DEFAULT_TIMEOUT_MS

RequestIds == 1..MaxRequests

Quote == "\""
JsonString(chars) == <<Quote>> \o chars \o <<Quote>>
JsonKey(chars) == JsonString(chars) \o <<":">>
KeyId == <<"i", "d">>
KeyResult == <<"r", "e", "s", "u", "l", "t">>
KeyError == <<"e", "r", "r", "o", "r">>
KeyMessage == <<"m", "e", "s", "s", "a", "g", "e">>
KeyMethod == <<"m", "e", "t", "h", "o", "d">>

JsUndefined == <<"undefined">>
NaN == 0 - 1

\* The messages a tool server sends.  kind "response": id is a JSON number or
\* a JSON string, with a result or with an error object; kind "notification":
\* a method and no id; kind "empty": the object {}.
IdTokens ==
    { [type |-> "number", text |-> ToDigits(n)] : n \in RequestIds } \cup
    { [type |-> "string", text |-> <<"1">>], [type |-> "string", text |-> <<"x">>] }
NoId == [type |-> "none", text |-> <<>>]

ServerMessages ==
    { [kind |-> "response", id |-> i, hasError |-> FALSE, result |-> r, errorMessage |-> <<>>] :
        i \in IdTokens, r \in {<<"r">>} } \cup
    { [kind |-> "response", id |-> i, hasError |-> TRUE, result |-> JsUndefined, errorMessage |-> m] :
        i \in IdTokens, m \in {<<"b", "a", "d">>, <<>>} } \cup
    { [kind |-> "notification", id |-> NoId, hasError |-> FALSE, result |-> JsUndefined,
       errorMessage |-> <<"p">>] } \cup
    { [kind |-> "empty", id |-> NoId, hasError |-> FALSE, result |-> JsUndefined,
       errorMessage |-> <<>>] }

\* JSON.stringify on the server's side
JsonText(m) ==
    LET idText == IF m.id.type = "number" THEN m.id.text ELSE JsonString(m.id.text)
    IN  CASE m.kind = "empty" -> <<"{", "}">>
          [] m.kind = "notification" ->
                <<"{">> \o JsonKey(KeyMethod) \o JsonString(m.errorMessage) \o <<"}">>
          [] m.kind = "response" /\ ~m.hasError ->
                <<"{">> \o JsonKey(KeyId) \o idText \o <<",">>
                        \o JsonKey(KeyResult) \o JsonString(m.result) \o <<"}">>
          [] m.kind = "response" /\ m.hasError ->
                <<"{">> \o JsonKey(KeyId) \o idText \o <<",">>
                        \o JsonKey(KeyError) \o <<"{">> \o JsonKey(KeyMessage)
                        \o JsonString(m.errorMessage) \o <<"}", "}">>

InvalidJson ==
    [kind |-> "invalid", id |-> NoId, hasError |-> FALSE, result |-> JsUndefined,
     errorMessage |-> <<>>]

\* JSON.parse: the message whose text this is; a text that is none of the
\* server's messages (a fragment, a log line) does not parse.
JsonTable == { [text |-> JsonText(m), value |-> m] : m \in ServerMessages }

ParseJson(rawMessage) ==
    IF \E e \in JsonTable : e.text = rawMessage
    THEN (CHOOSE e \in JsonTable : e.text = rawMessage).value
    ELSE InvalidJson

\* Number(parsed.id)
ToNumber(id) ==
    IF id.type = "number" THEN ParseDigits(id.text)
    ELSE IF id.text = <<>> THEN 0
    ELSE IF \A i \in 1..Len(id.text) : IsDigit(id.text[i]) THEN ParseDigits(id.text)
    ELSE NaN

(***************************************************************************)
(* McpClientService: the client object                                     *)
(***************************************************************************)
Pending == [state |-> "pending", value |-> <<>>]
Unissued == [state |-> "unissued", value |-> <<>>]
Resolved(v) == [state |-> "resolved", value |-> v]
Rejected(e) == [state |-> "rejected", value |-> e]

\* The fields after construction (lines 64-68).  promises, deadline and method
\* hold what each request's closure captures; received, emitted and killed
\* record what the last handler run was handed, what it emitted and which
\* children it called kill() on; issued lists the ids request() has handed
\* out, in order.
NewClient ==
    [childProcess |-> 0,
     nextRequestId |-> 1,
     pendingRequests |-> {},
     timers |-> {},
     deadline |-> [i \in RequestIds |-> 0],
     method |-> [i \in RequestIds |-> "none"],
     promises |-> [i \in RequestIds |-> Unissued],
     awaitingInitialize |-> {},
     stdoutBuffer |-> <<>>,
     initialized |-> FALSE,
     received |-> <<>>,
     emitted |-> <<>>,
     killed |-> {},
     issued |-> <<>>]

\* resolve()/reject() of a promise: only the first call has an effect
Settle(c, id, outcome) ==
    IF c.promises[id].state = "pending"
    THEN [c EXCEPT !.promises[id] = outcome]
    ELSE c

Emit(c, event) == [c EXCEPT !.emitted = Append(@, event)]

\* handleMessage without clearTimeout
handleMessageKeepTimer(c, rawMessage) ==
    LET parsed == ParseJson(rawMessage)
        requestId == ToNumber(parsed.id)
        d == [c EXCEPT !.received = Append(@, parsed)]
    IN  IF parsed.kind = "invalid" THEN Emit(d, "message")
        ELSE IF parsed.id.type # "none"
        THEN IF requestId \notin d.pendingRequests THEN d
             ELSE LET e == [d EXCEPT !.pendingRequests = @ \ {requestId}]
                  IN  IF parsed.hasError
                      THEN Settle(e, requestId,
                                  Rejected(IF parsed.errorMessage # <<>>
                                           THEN parsed.errorMessage
                                           ELSE <<"MCP request failed">>))
                      ELSE Settle(e, requestId, Resolved(parsed.result))
        ELSE Emit(d, "notification")

\* handleMessage: a response settles the pending request with its id
handleMessage(c, rawMessage) ==
    LET parsed == ParseJson(rawMessage)
        requestId == ToNumber(parsed.id)
        d == [c EXCEPT !.received = Append(@, parsed)]
    IN  IF parsed.kind = "invalid" THEN Emit(d, "message")
        ELSE IF parsed.id.type # "none"
        THEN IF requestId \notin d.pendingRequests THEN d
             ELSE LET e == [d EXCEPT !.timers = @ \ {requestId},
                                     !.deadline[requestId] = 0,
                                     !.pendingRequests = @ \ {requestId}]
                  IN  IF parsed.hasError
                      THEN Settle(e, requestId,
                                  Rejected(IF parsed.errorMessage # <<>>
                                           THEN parsed.errorMessage
                                           ELSE <<"MCP request failed">>))
                      ELSE Settle(e, requestId, Resolved(parsed.result))
        ELSE Emit(d, "notification")

RECURSIVE HandleAll(_, _)
HandleAll(c, messages) ==
    IF messages = <<>> THEN c
    ELSE HandleAll(handleMessage(c, Head(messages)), Tail(messages))

\* processIncomingBuffer: frames are cut from the buffer and dispatched in order
processIncomingBuffer(c) ==
    LET cut == ExtractMessages(c.stdoutBuffer, <<>>)
    IN  HandleAll([c EXCEPT !.stdoutBuffer = cut.buffer], cut.messages)

RECURSIVE RejectEach(_, _, _)
RejectEach(c, ids, error) ==
    IF ids = {} THEN c
    ELSE LET id == Min(ids)
         IN  RejectEach(Settle([c EXCEPT !.timers = @ \ {id}, !.deadline[id] = 0],
                               id, Rejected(error)),
                        ids \ {id}, error)

\* rejectAllPending that clears the timers and the table without rejecting
rejectAllPendingClearOnly(c, error) ==
    [c EXCEPT !.timers = @ \ c.pendingRequests,
              !.deadline = [id \in RequestIds |->
                               IF id \in c.pendingRequests THEN 0 ELSE c.deadline[id]],
              !.pendingRequests = {}]

\* lines 366-372
rejectAllPending(c, error) ==
    [RejectEach(c, c.pendingRequests, error) EXCEPT !.pendingRequests = {}]

\* The part of connectToServer after `await this.request('initialize', ...)`,
\* run as soon as that promise settles: on a result, notify and set
\* initialized; on a rejection the call throws.  notify returns silently
\* without a child and throws when stdin is not writable.
ResumeConnects(c, writable) ==
    LET done == {i \in c.awaitingInitialize : c.promises[i].state # "pending"}
        ok == \E i \in done : c.promises[i].state = "resolved"
    IN  [c EXCEPT !.awaitingInitialize = @ \ done,
                  !.initialized = IF ok /\ (c.childProcess = 0 \/ writable) THEN TRUE ELSE @]

request(c, method, now, writable) ==
    LET id == c.nextRequestId
    IN  [c EXCEPT !.nextRequestId = id + 1,
                  !.issued = Append(@, id),
                  !.timers = @ \cup {id},
                  !.deadline[id] = now + DEFAULT_TIMEOUT_MS,
                  !.method[id] = method,
                  !.pendingRequests = @ \cup {id},
                  \* writeMessage throws inside the promise executor
                  !.promises[id] = IF writable THEN Pending
                                   ELSE Rejected(<<"MCP server stdin is not writable">>)]

\* disconnect that also starts the request ids over
disconnectResetsIds(c) ==
    IF c.childProcess = 0 THEN c
    ELSE rejectAllPending(
             [c EXCEPT !.killed = @ \cup {c.childProcess},
                       !.childProcess = 0, !.initialized = FALSE, !.stdoutBuffer = <<>>,
                       !.nextRequestId = 1],
             <<"MCP client disconnected">>)

\* disconnect that drops the child without kill() and without rejecting
disconnectForgetsChild(c) ==
    IF c.childProcess = 0 THEN c
    ELSE [c EXCEPT !.childProcess = 0, !.initialized = FALSE, !.stdoutBuffer = <<>>]

\* disconnect: listeners off, kill(), fields reset, pending requests rejected
disconnect(c) ==
    IF c.childProcess = 0 THEN c
    ELSE rejectAllPending(
             [c EXCEPT !.killed = @ \cup {c.childProcess},
                       !.childProcess = 0, !.initialized = FALSE, !.stdoutBuffer = <<>>],
             <<"MCP client disconnected">>)

\* The timeout callback without pendingRequests.delete
onTimeoutKeepEntry(c, id) ==
    Settle([c EXCEPT !.timers = @ \ {id}, !.deadline[id] = 0],
           id, Rejected(<<"MCP request timed out: ", c.method[id]>>))

\* The timeout callback of request `id`
onTimeout(c, id) ==
    Settle([c EXCEPT !.timers = @ \ {id}, !.deadline[id] = 0, !.pendingRequests = @ \ {id}],
           id, Rejected(<<"MCP request timed out: ", c.method[id]>>))

\* childProcess.stdout.on('data')
onStdoutData(c, chunk) ==
    processIncomingBuffer([c EXCEPT !.stdoutBuffer = @ \o chunk])

\* childProcess.on('error')
onChildError(c, error) ==
    Emit([rejectAllPending(c, error) EXCEPT !.initialized = FALSE], "error")

\* childProcess.on('exit')
onChildExit(c, code) ==
    Emit([rejectAllPending(c, <<"MCP server exited", code>>) EXCEPT
              !.initialized = FALSE, !.childProcess = 0, !.stdoutBuffer = <<>>],
         "exit")

\* attached: the client's listeners are on the process; live: kill() has not
\* been called on it and it has not exited
NewChild == [attached |-> TRUE, writable |-> TRUE, live |-> TRUE]

\* removeAllListeners and kill() on the children in `killed`
Killed(ps, killed) ==
    [k \in 1..Len(ps) |->
        IF k \in killed
        THEN [ps[k] EXCEPT !.attached = FALSE, !.writable = FALSE, !.live = FALSE]
        ELSE ps[k]]

CurrentWritable(c) == c.childProcess # 0 /\ procs[c.childProcess].writable

CommandInputs == { <<"n", "p", "x">>, <<" ">> }
ExitCodes == { "0", "1" }
SpawnErrors == { <<"spawn ENOENT">> }

\* Chunks the tool server writes: framed messages, a bare JSON line, a log
\* line, and the first bytes of a frame whose rest has not arrived.
FramedChunks ==
    { [message |-> m, bytes |-> Frame(JsonText(m))] :
        m \in {x \in ServerMessages : x.id.type # "string" \/ ~x.hasError} }
LineChunks ==
    { [message |-> m, bytes |-> JsonText(m) \o <<"\n">>] :
        m \in {x \in ServerMessages :
                  x.kind = "response" /\ x.id.type = "number" /\ ~x.hasError} }

\* A server answers requests it has been sent: the number ids it uses are ids
\* the client has issued.
ServerChunks(c) ==
    { ch.bytes : ch \in {x \in FramedChunks \cup LineChunks :
                            x.message.id.type = "number"
                                => ParseDigits(x.message.id.text) < c.nextRequestId} } \cup
    { <<"h", "i", "\n">>, ContentLengthHeader }

\* A handler starts: nothing emitted, received or killed by it yet
Fresh(c) == [c EXCEPT !.emitted = <<>>, !.received = <<>>, !.killed = {}]

\* connectToServer up to its first await
ConnectToServer ==
    \E command \in CommandInputs :
        /\ Len(procs) < MaxChildren
        /\ mcp.nextRequestId <= MaxRequests
        /\ IF Trim(command) = <<>>
           THEN UNCHANGED <<mcp, procs>>
           ELSE LET c == disconnect(Fresh(mcp))
                    spawned == [c EXCEPT !.childProcess = Len(procs) + 1]
                    asked == request(spawned, "initialize", mcpNow, TRUE)
                IN  /\ mcp' = ResumeConnects(
                                 [asked EXCEPT !.awaitingInitialize = @ \cup {spawned.nextRequestId}],
                                 TRUE)
                    /\ procs' = Append(Killed(procs, c.killed), NewChild)
        /\ UNCHANGED <<mcpNow, stream>>

\* listTools / callTool
CallServer ==
    \E method \in {"tools/list", "tools/call"} :
        /\ mcp.nextRequestId <= MaxRequests
        /\ mcp.childProcess # 0 /\ mcp.initialized
        /\ mcp' = ResumeConnects(
                      request(Fresh(mcp), method, mcpNow, CurrentWritable(mcp)),
                      CurrentWritable(mcp))
        /\ UNCHANGED <<procs, mcpNow, stream>>

Disconnect ==
    /\ mcp.childProcess # 0
    /\ mcp' = ResumeConnects(disconnect(Fresh(mcp)), FALSE)
    /\ procs' = Killed(procs, mcp'.killed)
    /\ UNCHANGED <<mcpNow, stream>>

StdoutData ==
    \E k \in 1..Len(procs), chunk \in ServerChunks(mcp) :
        /\ procs[k].attached
        /\ LET after == onStdoutData(Fresh(mcp), chunk)
           IN  /\ Len(after.stdoutBuffer) <= MaxBuffered
               /\ mcp' = ResumeConnects(after, CurrentWritable(after))
        /\ UNCHANGED <<procs, mcpNow, stream>>

ChildError ==
    \E k \in 1..Len(procs), error \in SpawnErrors :
        /\ procs[k].attached
        /\ mcp' = ResumeConnects(onChildError(Fresh(mcp), error), CurrentWritable(mcp))
        /\ UNCHANGED <<procs, mcpNow, stream>>

ChildExit ==
    \E k \in 1..Len(procs), code \in ExitCodes :
        /\ procs[k].attached
        /\ mcp' = ResumeConnects(onChildExit(Fresh(mcp), code), FALSE)
        /\ procs' = [procs EXCEPT ![k] = [@ EXCEPT !.attached = FALSE, !.writable = FALSE,
                                                  !.live = FALSE]]
        /\ UNCHANGED <<mcpNow, stream>>

\* The child closes its end of the stdin pipe
StdinClose ==
    \E k \in 1..Len(procs) :
        /\ procs[k].attached /\ procs[k].writable
        /\ procs' = [procs EXCEPT ![k] = [@ EXCEPT !.writable = FALSE]]
        /\ UNCHANGED <<mcp, mcpNow, stream>>

TimerDue(id) == id \in mcp.timers /\ mcpNow >= mcp.deadline[id]

Timeout ==
    \E id \in RequestIds :
        /\ TimerDue(id)
        /\ mcp' = ResumeConnects(onTimeout(Fresh(mcp), id), CurrentWritable(mcp))
        /\ UNCHANGED <<procs, mcpNow, stream>>

\* Time passes; a timer that is due runs before the clock moves on
Tick ==
    /\ \A id \in RequestIds : ~TimerDue(id)
    /\ mcpNow < MaxNow
    /\ mcpNow' = mcpNow + TickMs
    /\ UNCHANGED <<mcp, procs, stream>>

McpInit ==
    /\ mcp = NewClient
    /\ mcpNow = 0
    /\ procs = <<>>
    /\ stream = <<>>
    /\ SigIdle
    /\ AdoIdle
    /\ OrchIdle
    /\ BoardIdle

McpNext ==
    \/ ConnectToServer /\ UNCHANGED nonMcpVars
    \/ CallServer /\ UNCHANGED nonMcpVars
    \/ Disconnect /\ UNCHANGED nonMcpVars
    \/ StdoutData /\ UNCHANGED nonMcpVars
    \/ ChildError /\ UNCHANGED nonMcpVars
    \/ ChildExit /\ UNCHANGED nonMcpVars
    \/ StdinClose /\ UNCHANGED nonMcpVars
    \/ Timeout /\ UNCHANGED nonMcpVars
    \/ Tick /\ UNCHANGED nonMcpVars

SpecMcp == McpInit /\ [][McpNext]_vars

(***************************************************************************)
(* The client with a clock that keeps running while a timer is set, and    *)
(* with the event loop's guarantees: time passes, and a timer that is due  *)
(* runs its callback.                                                      *)
(***************************************************************************)
TimePasses ==
    /\ \A id \in RequestIds : ~TimerDue(id)
    /\ mcpNow < MaxNow \/ mcp.timers # {}
    /\ mcpNow' = mcpNow + TickMs
    /\ UNCHANGED <<mcp, procs, stream>>

McpLiveNext ==
    \/ ConnectToServer /\ UNCHANGED nonMcpVars
    \/ CallServer /\ UNCHANGED nonMcpVars
    \/ Disconnect /\ UNCHANGED nonMcpVars
    \/ StdoutData /\ UNCHANGED nonMcpVars
    \/ ChildError /\ UNCHANGED nonMcpVars
    \/ ChildExit /\ UNCHANGED nonMcpVars
    \/ StdinClose /\ UNCHANGED nonMcpVars
    \/ Timeout /\ UNCHANGED nonMcpVars
    \/ TimePasses /\ UNCHANGED nonMcpVars

SpecMcpLive ==
    /\ McpInit
    /\ [][McpLiveNext]_vars
    /\ WF_vars(Timeout /\ UNCHANGED nonMcpVars)
    /\ WF_vars(TimePasses /\ UNCHANGED nonMcpVars)

(***************************************************************************)
(* The receive path alone: a connected client is fed a byte stream of      *)
(* back-to-back {} frames in chunks cut at arbitrary places.               *)
(***************************************************************************)
MaxFrames == 2

EmptyObjectFrame == Frame(<<"{", "}">>)

RECURSIVE Repeat(_, _)
Repeat(bytes, n) == IF n = 0 THEN <<>> ELSE bytes \o Repeat(bytes, n - 1)

\* The client once connectToServer has returned: the initialize request was
\* answered and no request is in flight.
ConnectedClient ==
    LET spawned == [NewClient EXCEPT !.childProcess = 1]
        asked == [request(spawned, "initialize", 0, TRUE) EXCEPT !.awaitingInitialize = {1}]
        answer == CHOOSE m \in ServerMessages :
                      m.kind = "response" /\ ~m.hasError /\ m.id = [type |-> "number", text |-> <<"1">>]
    IN  Fresh(ResumeConnects(onStdoutData(asked, Frame(JsonText(answer))), TRUE))

FrameInit ==
    /\ mcp = ConnectedClient
    /\ mcpNow = 0
    /\ procs = <<NewChild>>
    /\ \E n \in 1..MaxFrames :
          stream = [frames |-> n, bytes |-> Repeat(EmptyObjectFrame, n),
                    fed |-> 0, chunks |-> 0, dispatched |-> 0]
    /\ SigIdle
    /\ AdoIdle
    /\ OrchIdle
    /\ BoardIdle

\* One 'data' event carrying the next k bytes of the stream
FeedChunk ==
    \E k \in 1..Len(stream.bytes) :
        LET after == onStdoutData(Fresh(mcp), SubSeq(stream.bytes, 1, k))
        IN  /\ mcp' = ResumeConnects(after, CurrentWritable(after))
            /\ stream' = [stream EXCEPT !.bytes = SubSeq(@, k + 1, Len(@)),
                                        !.fed = @ + k,
                                        !.chunks = @ + 1,
                                        !.dispatched = @ + Len(after.received)]
            /\ UNCHANGED <<procs, mcpNow>>

FrameNext == FeedChunk /\ UNCHANGED nonMcpVars

SpecFrame == FrameInit /\ [][FrameNext]_vars

(***************************************************************************)
(* ado handlers and WorkerAgent: text                                      *)
(***************************************************************************)
\* text.toLowerCase()
ToLowerCase(s) == [i \in 1..Len(s) |-> ToLower(s[i])]

\* haystack.includes(needle)
Includes(haystack, needle) ==
    \E i \in 1..(Len(haystack) - Len(needle) + 1) :
        SubSeq(haystack, i, i + Len(needle) - 1) = needle

\* text.split('\n')
RECURSIVE SplitLines(_)
SplitLines(text) ==
    LET nl == IndexOf(text, <<"\n">>)
    IN  IF nl = 0 THEN <<text>>
        ELSE <<SubSeq(text, 1, nl - 1)>> \o SplitLines(SubSeq(text, nl + 1, Len(text)))

\* lines.join('\n')
RECURSIVE JoinLines(_)
JoinLines(lines) ==
    IF lines = <<>> THEN <<>>
    ELSE IF Len(lines) = 1 THEN lines[1]
    ELSE lines[1] \o <<"\n">> \o JoinLines(Tail(lines))

\* .map((line) => line.trim()).filter(Boolean)
RECURSIVE TrimmedNonEmpty(_)
TrimmedNonEmpty(lines) ==
    IF lines = <<>> THEN <<>>
    ELSE LET t == Trim(Head(lines))
         IN  (IF t = <<>> THEN <<>> ELSE <<t>>) \o TrimmedNonEmpty(Tail(lines))

\* lines.slice(-n)
LastLines(lines, n) == SubSeq(lines, Max({1, Len(lines) - n + 1}), Len(lines))

\* \w of a regular expression
IsWordChar(c) == c \in DigitSet \/ c \in UpperSet \/ c \in {LowerChars[i] : i \in 1..26} \/ c = "_"

\* \b before position i, and after position j, of a line whose characters at
\* i and j are word characters
BoundaryBefore(line, i) == i = 1 \/ ~IsWordChar(line[i - 1])
BoundaryAfter(line, j) == j = Len(line) \/ ~IsWordChar(line[j + 1])

\* /\bword\b/.test(line)
HasWord(line, word) ==
    \E i \in 1..Len(line) :
        /\ i + Len(word) - 1 <= Len(line)
        /\ SubSeq(line, i, i + Len(word) - 1) = word
        /\ BoundaryBefore(line, i)
        /\ BoundaryAfter(line, i + Len(word) - 1)

\* /\bts\d{4}\b/.test(line)
HasTsCode(line) ==
    \E i \in 1..Len(line) :
        /\ i + 5 <= Len(line)
        /\ SubSeq(line, i, i + 1) = <<"t", "s">>
        /\ \A j \in 2..5 : IsDigit(line[i + j])
        /\ BoundaryBefore(line, i)
        /\ BoundaryAfter(line, i + 5)

ErrorWords == { <<"e", "r", "r", "o", "r">>, <<"f", "a", "i", "l", "e", "d">>, <<"r", "s", "p", "a", "c", "k">> }
WarningWord == <<"w", "a", "r", "n", "i", "n", "g">>

(***************************************************************************)
(* ado handlers: parseBuildErrorDetails (the file hint, which only feeds   *)
(* the text of the stuck message, is left out)                             *)
(***************************************************************************)
MAX_REPAIR_ATTEMPTS == 3
SignatureLines == 8

LineHasError(lowered) ==
    /\ (\E w \in ErrorWords : HasWord(lowered, w)) \/ HasTsCode(lowered)
    /\ ~HasWord(lowered, WarningWord)

parseBuildErrorDetails(rawOutput) ==
    LET lines == TrimmedNonEmpty(SplitLines(rawOutput))
        hasError == \E i \in 1..Len(lines) : LineHasError(ToLowerCase(lines[i]))
    IN  IF lines = <<>> \/ ~hasError
        THEN [hasError |-> FALSE, signature |-> <<>>]
        ELSE [hasError |-> TRUE, signature |-> JoinLines(LastLines(lines, SignatureLines))]

(***************************************************************************)
(* WorkerAgent: pure parts                                                 *)
(***************************************************************************)
MAX_RETIRES == 3

VisualMatchTrue == <<"V", "I", "S", "U", "A", "L", "_", "M", "A", "T", "C", "H", ":", " ", "T", "R", "U", "E">>
VisualMatchFalse == <<"V", "I", "S", "U", "A", "L", "_", "M", "A", "T", "C", "H", ":", " ", "F", "A", "L", "S", "E">>

\* worker-agent.ts 274-281: what runVisualCritic makes of the critic's output
CriticVerdict(criticOutput) ==
    IF Includes([i \in 1..Len(criticOutput) |->
                    IF criticOutput[i] \in {LowerChars[k] : k \in 1..26}
                    THEN UpperChars[CHOOSE k \in 1..26 : LowerChars[k] = criticOutput[i]]
                    ELSE criticOutput[i]],
                VisualMatchTrue)
    THEN [matched |-> TRUE, feedback |-> <<>>]
    ELSE [matched |-> FALSE,
          feedback |-> IF criticOutput # <<>> THEN criticOutput ELSE VisualMatchFalse]

SensitiveKeywords ==
    { <<"a", "u", "t", "h">>, <<"s", "e", "c", "u", "r", "i", "t", "y">>,
      <<"c", "r", "e", "d", "e", "n", "t", "i", "a", "l">>, <<"s", "e", "c", "r", "e", "t">>,
      <<"t", "o", "k", "e", "n">>, <<"p", "a", "y", "m", "e", "n", "t">>,
      <<"p", "e", "r", "m", "i", "s", "s", "i", "o", "n">>, <<"p", "o", "l", "i", "c", "y">> }

HighFileCount == 12
LowFileCount == 2

\* inferRiskLevel with the file-count test one off
inferRiskLevelAboveTwelve(filesTouched) ==
    IF Len(filesTouched) > HighFileCount THEN "High"
    ELSE IF \E i \in 1..Len(filesTouched) :
               \E k \in SensitiveKeywords : Includes(ToLowerCase(filesTouched[i]), k)
    THEN "High"
    ELSE IF Len(filesTouched) <= LowFileCount THEN "Low"
    ELSE "Medium"

inferRiskLevel(filesTouched) ==
    IF Len(filesTouched) >= HighFileCount THEN "High"
    ELSE IF \E i \in 1..Len(filesTouched) :
               \E k \in SensitiveKeywords : Includes(ToLowerCase(filesTouched[i]), k)
    THEN "High"
    ELSE IF Len(filesTouched) <= LowFileCount THEN "Low"
    ELSE "Medium"

\* collectFilesTouched: git diff --name-only, one path per line
collectFilesTouched(diffResult) ==
    IF diffResult.exitCode # 0 THEN <<>>
    ELSE TrimmedNonEmpty(SplitLines(diffResult.stdout))

(***************************************************************************)
(* One runAgentTask run: the WorkerAgent object, the terminate and         *)
(* verifyUi activations, and the closure state of the repair monitor       *)
(***************************************************************************)
MaxTerminateCommands == 2
MaxInFlightPolls == 2

Session == <<"session-1">>
TaskId == <<"ADO-", "7">>
ReportPath == <<".guru/reports/">> \o TaskId \o <<".json">>
Null == <<"null">>

\* Who awaits a terminate() call: 0 is the exit handler, k > 0 the k-th
\* ado:terminateWorkerAgent command
Callers == 0..MaxTerminateCommands

NoReport == [taskId |-> <<>>, filesTouched |-> <<>>, riskLevel |-> "", verificationSteps |-> <<>>]
IdleCall == [pc |-> "idle", report |-> NoReport, ret |-> <<>>]
NoVerdict == [matched |-> FALSE, feedback |-> <<>>]
NoResult == [verified |-> FALSE, attempts |-> 0, feedback |-> Undefined]
IdleVerify ==
    [pc |-> "idle", attempt |-> 0, lastFeedback |-> <<>>,
     captures |-> 0, critics |-> 0, corrections |-> 0,
     verdicts |-> <<>>, lastVerdict |-> NoVerdict, result |-> NoResult]

\* ado.ts 871-892 and 941-960 just after runAgentTask has returned: the worker
\* is registered, its process is alive, the exit listener and the repair
\* interval are installed.  built, written, kills and events record what the
\* run did to the file system and the process manager; pollLog holds the last
\* MAX_REPAIR_ATTEMPTS results the monitor read; figmaReference says whether
\* the design reference image is on disk.
NewRun(figmaReference) ==
    [figmaReference |-> figmaReference,
     workerAgents |-> TRUE, alive |-> TRUE, exitListener |-> TRUE, onExit |-> "idle",
     isTerminated |-> FALSE, reportPath |-> Null, riskLevel |-> "Medium",
     verificationStepsText |-> <<"Task completed by worker agent process; tests not automatically verified.">>,
     calls |-> [k \in Callers |-> IdleCall],
     verify |-> IdleVerify,
     built |-> 0, written |-> <<>>, kills |-> <<>>, events |-> <<>>,
     repairMonitor |-> TRUE, repairAttempts |-> 0, lastErrorSignature |-> <<>>,
     polls |-> 0, pollLog |-> <<>>, stuck |-> 0]

\* ado.ts 957-959: finally { workerAgents.delete(processSessionId) }
onExitFinally(a) == [a EXCEPT !.workerAgents = FALSE, !.onExit = "done"]

\* terminate() has returned path to caller k, which runs on: the exit handler
\* into its finally block, a command into ado.ts 1011-1012
resumeCaller(a, k, path) ==
    LET returned == [a EXCEPT !.calls[k].pc = "returned", !.calls[k].ret = path]
    IN  IF k = 0 THEN onExitFinally(returned)
        ELSE [returned EXCEPT !.workerAgents = FALSE]

\* terminate() without the isTerminated guard
terminateUnguarded(a, k) ==
    [a EXCEPT !.isTerminated = TRUE, !.calls[k].pc = "building"]

\* WorkerAgent.terminate up to its first await
terminate(a, k) ==
    IF a.isTerminated
    THEN resumeCaller(a, k, IF a.reportPath = Null THEN <<>> ELSE a.reportPath)
    ELSE [a EXCEPT !.isTerminated = TRUE, !.calls[k].pc = "building"]

buildExitReport(a, diffResult) ==
    LET filesTouched == collectFilesTouched(diffResult)
    IN  [taskId |-> TaskId,
         filesTouched |-> filesTouched,
         riskLevel |-> IF a.riskLevel = "Medium" THEN inferRiskLevel(filesTouched)
                       ELSE a.riskLevel,
         verificationSteps |-> a.verificationStepsText]

\* terminate resumes with the report built
terminateAfterBuild(a, k, diffResult) ==
    [a EXCEPT !.built = @ + 1,
              !.calls[k].pc = "writing",
              !.calls[k].report = buildExitReport(a, diffResult)]

\* terminate resumes with the report written by generateExitReport
terminateAfterWrite(a, k) ==
    resumeCaller([a EXCEPT !.written = Append(@, [path |-> ReportPath, report |-> a.calls[k].report]),
                           !.reportPath = ReportPath,
                           !.kills = Append(@, [by |-> "terminate", session |-> Session]),
                           !.events = Append(@, [event |-> "agent:terminated",
                                                 session |-> Session,
                                                 detail |-> ReportPath])],
                 k, ReportPath)

\* the exit handler with verifyUi's exception escaping it
onExitVerifyThrowEscapes(a) == onExitFinally(a)

\* ado.ts 950-956: verifyUi threw, the handler swallows it and terminates
onExitAfterVerifyThrow(a) == terminate([a EXCEPT !.onExit = "terminating"], 0)

\* ado.ts 951-956: verifyUi returned, the handler terminates
onExitAfterVerify(a) == terminate([a EXCEPT !.onExit = "terminating"], 0)

verifyReturn(a, text, result) ==
    onExitAfterVerify([a EXCEPT !.verificationStepsText = text,
                                !.verify.pc = "returned",
                                !.verify.result = result])

verifyThrow(a) == onExitAfterVerifyThrow([a EXCEPT !.verify.pc = "threw"])

\* the exit listener of runAgentTask, up to its first await
onExit(a) ==
    LET b == [a EXCEPT !.repairMonitor = FALSE, !.exitListener = FALSE]
    IN  IF ~b.workerAgents \/ b.isTerminated
        THEN onExitFinally(b)
        ELSE [b EXCEPT !.onExit = "verifying", !.verify.pc = "access"]

\* verifyUi resumes after fs.access
verifyAfterAccess(a, found) ==
    IF ~found
    THEN verifyReturn(a,
             <<"Visual QA skipped: .wairstro/snapshots/figma_reference.png was not found.">>,
             [verified |-> FALSE, attempts |-> 0, feedback |-> <<"Missing figma_reference.png.">>])
    ELSE [a EXCEPT !.verify.pc = "capture", !.verify.attempt = 1]

\* verifyUi resumes after captureLocalUi
verifyAfterCapture(a) ==
    [a EXCEPT !.verify.captures = @ + 1, !.verify.pc = "critic"]

\* every failed attempt is followed by a correction
ShouldCorrectAlways(attempt) == TRUE

\* worker-agent.ts 146: if (attempt < MAX_RETIRES)
ShouldCorrect(attempt) == attempt < MAX_RETIRES

\* worker-agent.ts 151-154: the loop ran out
verifyExhausted(a) ==
    verifyReturn(a,
        <<"Visual QA failed after ">> \o ToDigits(MAX_RETIRES) \o <<" attempts.">>
            \o (IF a.verify.lastFeedback # <<>>
                THEN <<" Remaining feedback: ">> \o a.verify.lastFeedback ELSE <<>>),
        [verified |-> FALSE, attempts |-> MAX_RETIRES, feedback |-> a.verify.lastFeedback])

\* verifyUi resumes after runVisualCritic
verifyAfterCritic(a, criticOutput) ==
    LET critic == CriticVerdict(criticOutput)
        attempt == a.verify.attempt
        b == [a EXCEPT !.verify.critics = @ + 1,
                       !.verify.verdicts = Append(@, critic.matched),
                       !.verify.lastVerdict = critic]
    IN  IF critic.matched
        THEN verifyReturn(b,
                 <<"Visual QA passed after ">> \o ToDigits(attempt) \o <<" attempt(s).">>,
                 [verified |-> TRUE, attempts |-> attempt, feedback |-> Undefined])
        ELSE LET c == [b EXCEPT !.verify.lastFeedback = critic.feedback]
             IN  IF ShouldCorrect(attempt) THEN [c EXCEPT !.verify.pc = "correct"]
                 ELSE IF attempt + 1 <= MAX_RETIRES
                 THEN [c EXCEPT !.verify.attempt = attempt + 1, !.verify.pc = "capture"]
                 ELSE verifyExhausted(c)

\* verifyUi resumes after applyVisualCorrections
verifyAfterCorrection(a) ==
    LET b == [a EXCEPT !.verify.corrections = @ + 1]
    IN  IF a.verify.attempt + 1 <= MAX_RETIRES
        THEN [b EXCEPT !.verify.attempt = a.verify.attempt + 1, !.verify.pc = "capture"]
        ELSE verifyExhausted(b)

\* ado:terminateWorkerAgent, up to the first await inside terminate
terminateWorkerAgent(a, k) ==
    IF ~a.workerAgents
    THEN [a EXCEPT !.calls[k].pc = "notfound"]
    ELSE terminate(a, k)

\* the repair counters that ignore a clean poll
trackRepairNoReset(attempts, lastSignature, parsed) ==
    IF ~parsed.hasError
    THEN [repairAttempts |-> attempts, lastErrorSignature |-> lastSignature]
    ELSE IF parsed.signature # <<>> /\ parsed.signature = lastSignature
    THEN [repairAttempts |-> attempts + 1, lastErrorSignature |-> lastSignature]
    ELSE [repairAttempts |-> 1, lastErrorSignature |-> parsed.signature]

\* ado.ts 909-920: the repair counters after a poll
trackRepair(attempts, lastSignature, parsed) ==
    IF ~parsed.hasError
    THEN [repairAttempts |-> 0, lastErrorSignature |-> <<>>]
    ELSE IF parsed.signature # <<>> /\ parsed.signature = lastSignature
    THEN [repairAttempts |-> attempts + 1, lastErrorSignature |-> lastSignature]
    ELSE [repairAttempts |-> 1, lastErrorSignature |-> parsed.signature]

StuckMessage ==
    <<"I am stuck on a compilation error in ", "[fileHint]",
      ". I tried fixing it 3 times. Please review the terminal logs.">>

\* the interval callback up to its await
repairPollStart(a) ==
    IF ~a.workerAgents \/ a.isTerminated
    THEN [a EXCEPT !.repairMonitor = FALSE]
    ELSE [a EXCEPT !.polls = @ + 1]

\* whether the callback goes on to report the worker stuck
IsStuck(tracked) == ~(tracked.repairAttempts < MAX_REPAIR_ATTEMPTS)

\* the interval callback resumes with the terminal output
repairPollRead(a, terminalOutput) ==
    LET parsed == parseBuildErrorDetails(terminalOutput)
        tracked == trackRepair(a.repairAttempts, a.lastErrorSignature, parsed)
        b == [a EXCEPT !.polls = @ - 1,
                       !.pollLog = LastLines(Append(@, parsed), MAX_REPAIR_ATTEMPTS),
                       !.repairAttempts = tracked.repairAttempts,
                       !.lastErrorSignature = tracked.lastErrorSignature]
    IN  IF ~parsed.hasError \/ ~IsStuck(tracked) THEN b
        ELSE [b EXCEPT !.repairMonitor = FALSE,
                       !.stuck = @ + 1,
                       !.events = @ \o << [event |-> "agent-error", session |-> Session,
                                           detail |-> StuckMessage],
                                          [event |-> "data", session |-> Session,
                                           detail |-> <<"\n">> \o StuckMessage \o <<"\n">>] >>,
                       !.kills = Append(@, [by |-> "repairMonitor", session |-> Session])]

(***************************************************************************)
(* Inputs and actions of a run                                             *)
(***************************************************************************)
CriticOutputs ==
    { <<"V", "I", "S", "U", "A", "L", "_", "M", "A", "T", "C", "H", ":", " ", "T", "R", "U", "E">>,
      <<"o", "k", " ", "v", "i", "s", "u", "a", "l", "_", "m", "a", "t", "c", "h", ":", " ", "t", "r", "u", "e">>,
      <<"V", "I", "S", "U", "A", "L", "_", "M", "A", "T", "C", "H", ":", " ", "F", "A", "L", "S", "E", "\n", "-", " ", "p">>,
      <<>> }

GitDiffResults ==
    { [exitCode |-> 1, stdout |-> <<"a", ".", "t", "s", "\n">>],
      [exitCode |-> 0, stdout |-> <<>>],
      [exitCode |-> 0, stdout |-> <<"a", "\n", "b", "\n", " ", "c", "\n", "\n">>],
      [exitCode |-> 0, stdout |-> <<"s", "r", "c", "/", "A", "u", "t", "h", ".", "t", "s", "\n">>] }

TerminalOutputs ==
    { <<"o", "k", "\n">>,
      <<"w", "a", "r", "n", "i", "n", "g", ":", " ", "e", "r", "r", "o", "r", "\n">>,
      <<"0", " ", "e", "r", "r", "o", "r", "s">>,
      <<"x", " ", "e", "r", "r", "o", "r", "\n", "1", "\n", "2", "\n", "3", "\n", "4", "\n", "5", "\n", "6", "\n", "7", "\n", "8">>,
      <<"F", "a", "i", "l", "e", "d", "\n", " ", "\n", "1", "\n", "2", "\n", "3", "\n", "4", "\n", "5", "\n", "6", "\n", "7", "\n", "8", "\n">>,
      <<"T", "S", "2", "3", "0", "4", " ", "y">> }

\* The agent process exits and the process manager emits 'exit' for its
\* session ('exit' of any other session returns at ado.ts 942)
ProcessExit ==
    /\ ado.alive
    /\ ado' = IF ado.exitListener THEN onExit([ado EXCEPT !.alive = FALSE])
              ELSE [ado EXCEPT !.alive = FALSE]
    /\ UNCHANGED nonAdoVars

VerifyAccess ==
    /\ ado.verify.pc = "access"
    /\ ado' = verifyAfterAccess(ado, ado.figmaReference)
    /\ UNCHANGED nonAdoVars

VerifyCapture ==
    /\ ado.verify.pc = "capture"
    /\ \E ok \in BOOLEAN : ado' = IF ok THEN verifyAfterCapture(ado) ELSE verifyThrow(ado)
    /\ UNCHANGED nonAdoVars

VerifyCritic ==
    /\ ado.verify.pc = "critic"
    /\ \/ \E criticOutput \in CriticOutputs : ado' = verifyAfterCritic(ado, criticOutput)
       \/ ado' = verifyThrow([ado EXCEPT !.verify.critics = @ + 1])
    /\ UNCHANGED nonAdoVars

VerifyCorrect ==
    /\ ado.verify.pc = "correct"
    /\ \E ok \in BOOLEAN : ado' = IF ok THEN verifyAfterCorrection(ado) ELSE verifyThrow(ado)
    /\ UNCHANGED nonAdoVars

\* The k-th ado:terminateWorkerAgent command arrives
TerminateCommand ==
    /\ \E k \in 1..MaxTerminateCommands :
          /\ ado.calls[k].pc = "idle"
          /\ \A j \in 1..(k - 1) : ado.calls[j].pc # "idle"
          /\ ado' = terminateWorkerAgent(ado, k)
    /\ UNCHANGED nonAdoVars

TerminateBuilt ==
    /\ \E k \in Callers, diffResult \in GitDiffResults :
          /\ ado.calls[k].pc = "building"
          /\ ado' = terminateAfterBuild(ado, k, diffResult)
    /\ UNCHANGED nonAdoVars

TerminateWritten ==
    /\ \E k \in Callers :
          /\ ado.calls[k].pc = "writing"
          /\ ado' = terminateAfterWrite(ado, k)
    /\ UNCHANGED nonAdoVars

\* The repair interval fires
RepairPoll ==
    /\ ado.repairMonitor
    /\ ado.polls < MaxInFlightPolls
    /\ ado' = repairPollStart(ado)
    /\ UNCHANGED nonAdoVars

\* getTerminalErrors resolves for a poll in flight
RepairRead ==
    /\ ado.polls > 0
    /\ \E terminalOutput \in TerminalOutputs, now \in ClockReadings :
          /\ ado' = repairPollRead(ado, terminalOutput)
          /\ IF ado'.stuck # ado.stuck
             THEN broadcast(Session, StuckMessage, now)
             ELSE UNCHANGED sigVars
    /\ UNCHANGED <<mcpVars, orchVars, boardVars>>

\* Runs in which the worker's process exits, or the worker is terminated,
\* before the repair interval first fires
WorkerInit ==
    /\ \E figmaReference \in BOOLEAN : ado = NewRun(figmaReference)
    /\ SigIdle
    /\ McpIdle
    /\ OrchIdle
    /\ BoardIdle

WorkerNext ==
    \/ ProcessExit
    \/ VerifyAccess
    \/ VerifyCapture
    \/ VerifyCritic
    \/ VerifyCorrect
    \/ TerminateCommand
    \/ TerminateBuilt
    \/ TerminateWritten

SpecWorker == WorkerInit /\ [][WorkerNext]_vars

(***************************************************************************)
(* The exit report's risk level: workers constructed with each risk level  *)
(* are terminated over working trees of 0..MaxTouchedFiles changed files.  *)
(***************************************************************************)
MaxTouchedFiles == 13

\* config.riskLevel ?? 'Medium' (worker-agent.ts 94)
SuppliedRiskLevels == { "Low", "Medium", "High" }

\* The i-th ordinary path of a working tree: "fa", "fb", ...
PlainFile(i) == <<"f", LowerChars[i]>>

PlainFiles(n) == [i \in 1..n |-> PlainFile(i)]

\* Paths that name a sensitive area, in the spellings a diff can show
SensitiveFiles ==
    { <<"s", "r", "c", "/">> \o k \o <<"/", "x", ".", "t", "s">> : k \in SensitiveKeywords } \cup
    { <<"s", "r", "c", "/", "A", "u", "t", "h", "/", "l", "o", "g", "i", "n", ".", "t", "s">>,
      <<"T", "O", "K", "E", "N", "S">>,
      <<"a", "u", "t", "o">> }

\* stdout of git diff --name-only: one path per line
DiffOf(files) ==
    [exitCode |-> 0, stdout |-> JoinLines(files) \o (IF files = <<>> THEN <<>> ELSE <<"\n">>)]

RiskDiffResults ==
    { DiffOf(PlainFiles(n)) : n \in 0..MaxTouchedFiles } \cup
    { DiffOf(PlainFiles(n) \o <<f>>) : n \in {0, 1, 2, 3}, f \in SensitiveFiles } \cup
    { [exitCode |-> 1, stdout |-> JoinLines(PlainFiles(3))] }

RiskTerminateBuilt ==
    /\ \E k \in Callers, diffResult \in RiskDiffResults :
          /\ ado.calls[k].pc = "building"
          /\ ado' = terminateAfterBuild(ado, k, diffResult)
    /\ UNCHANGED nonAdoVars

RiskInit ==
    /\ \E riskLevel \in SuppliedRiskLevels :
          ado = [NewRun(FALSE) EXCEPT !.riskLevel = riskLevel]
    /\ SigIdle
    /\ McpIdle
    /\ OrchIdle
    /\ BoardIdle

RiskNext ==
    \/ TerminateCommand
    \/ RiskTerminateBuilt
    \/ TerminateWritten

SpecRisk == RiskInit /\ [][RiskNext]_vars

\* Runs with the repair monitor polling, in a workspace without a design
\* reference image
MonitorInit ==
    /\ ado = NewRun(FALSE)
    /\ SigIdle
    /\ McpIdle
    /\ OrchIdle
    /\ BoardIdle

MonitorNext ==
    \/ RepairPoll
    \/ RepairRead
    \/ ProcessExit
    \/ VerifyAccess
    \/ TerminateCommand
    \/ TerminateBuilt
    \/ TerminateWritten

SpecMonitor == MonitorInit /\ [][MonitorNext]_vars

(***************************************************************************)
(* OrchestratorService: sprint planning, pure parts                        *)
(***************************************************************************)
\* A property that is absent reads as undefined
Absent == "undefined"

LowerSet == {LowerChars[i] : i \in 1..26}

\* [a-z0-9/._-]
IsPlanChar(c) == c \in LowerSet \/ c \in DigitSet \/ c \in {"/", ".", "_", "-"}

\* s.replace(/[^a-z0-9/._-]+/g, ' '): the first character of a run of other
\* characters becomes the space, the rest of the run goes
ReplaceOtherRuns(s) ==
    LET marked == [i \in 1..Len(s) |->
                     IF IsPlanChar(s[i]) THEN s[i]
                     ELSE IF i = 1 \/ IsPlanChar(s[i - 1]) THEN " "
                     ELSE "skip"]
    IN  SelectSeq(marked, LAMBDA c : c # "skip")

\* lines 57-59
normalizeText(value) == Trim(ReplaceOtherRuns(ToLowerCase(value)))

\* parts.join(sep)
RECURSIVE JoinWith(_, _)
JoinWith(parts, sep) ==
    IF parts = <<>> THEN <<>>
    ELSE IF Len(parts) = 1 THEN parts[1]
    ELSE parts[1] \o sep \o JoinWith(Tail(parts), sep)

\* s.split(sep) for a one-character separator
RECURSIVE SplitBy(_, _)
SplitBy(s, sep) ==
    LET at == IndexOf(s, <<sep>>)
    IN  IF at = 0 THEN <<s>>
        ELSE <<SubSeq(s, 1, at - 1)>> \o SplitBy(SubSeq(s, at + 1, Len(s)), sep)

\* How many of the tokens occur in the text
Hits(text, tokens) == Cardinality({t \in tokens : Includes(text, t)})

HostWords == { <<"h", "o", "s", "t">>, <<"s", "h", "e", "l", "l">>, <<"c", "o", "n", "t", "a", "i", "n", "e", "r">>, <<"l", "a", "y", "o", "u", "t">> }
SharedWords == { <<"s", "h", "a", "r", "e", "d">>, <<"u", "i", " ", "l", "i", "b", "r", "a", "r", "y">>, <<"d", "e", "s", "i", "g", "n", " ", "s", "y", "s", "t", "e", "m">>, <<"c", "o", "m", "p", "o", "n", "e", "n", "t", " ", "k", "i", "t">> }
RemoteWords == { <<"r", "e", "m", "o", "t", "e">>, <<"m", "i", "c", "r", "o", "f", "r", "o", "n", "t", "e", "n", "d">>, <<"m", "f", "e">>, <<"f", "e", "d", "e", "r", "a", "t", "i", "o", "n">> }

\* lines 62-81
scorePackageMatch(item, pkg) ==
    LET haystack == normalizeText(JoinWith(<<item.title, item.description, item.acceptanceCriteria,
                                             JoinWith(item.tags, <<" ">>), item.url>>, <<" ">>))
        pkgName == normalizeText(pkg.name)
        pkgPath == normalizeText(pkg.rootPath)
        pkgSegments == SelectSeq(SplitBy(pkgPath, "/"), LAMBDA segment : Len(segment) >= 3)
    IN  (IF pkgName # <<>> /\ Includes(haystack, pkgName) THEN 4 ELSE 0)
        + 2 * Cardinality({i \in 1..Len(pkgSegments) : Includes(haystack, pkgSegments[i])})
        + (IF pkg.role = "host" /\ Hits(haystack, HostWords) > 0 THEN 2 ELSE 0)
        + (IF pkg.role = "shared" /\ Hits(haystack, SharedWords) > 0 THEN 2 ELSE 0)
        + (IF pkg.role = "remote" /\ Hits(haystack, RemoteWords) > 0 THEN 1 ELSE 0)

HighSignals == { <<"r", "e", "f", "a", "c", "t", "o", "r">>, <<"m", "i", "g", "r", "a", "t", "i", "o", "n">>, <<"a", "r", "c", "h", "i", "t", "e", "c", "t", "u", "r", "e">>, <<"c", "r", "o", "s", "s", "-", "p", "a", "c", "k", "a", "g", "e">>, <<"b", "r", "e", "a", "k", "i", "n", "g">> }
MediumSignals == { <<"a", "p", "i">>, <<"s", "t", "a", "t", "e">>, <<"i", "n", "t", "e", "g", "r", "a", "t", "i", "o", "n">>, <<"t", "e", "s", "t">>, <<"e", "r", "r", "o", "r">> }

\* lines 83-96
estimateComplexity(item) ==
    LET signal == normalizeText(JoinWith(<<item.title, item.description, item.acceptanceCriteria>>,
                                         <<" ">>))
        highHits == Hits(signal, HighSignals)
        mediumHits == Hits(signal, MediumSignals)
        lengthScore == IF Len(signal) > 1200 THEN 2 ELSE IF Len(signal) > 500 THEN 1 ELSE 0
        total == highHits * 2 + mediumHits + lengthScore
    IN  IF total >= 5 THEN "High" ELSE IF total >= 2 THEN "Medium" ELSE "Low"

\* lines 143-154; the fields copied through unchanged are id, title and tags
toPlanTask(item, complexity) ==
    [id |-> item.id, title |-> item.title, tags |-> item.tags,
     complexity |-> IF complexity # Absent THEN complexity ELSE estimateComplexity(item)]

\* lines 98-110.  A manager response is the form of its text (blank, prose,
\* bare JSON, or JSON inside a code fence) and the value the JSON denotes.
\* null when the text is blank, is not JSON, or denotes no plain object
parseJsonPlan(raw) ==
    IF raw.form = "blank" \/ raw.form = "prose" \/ raw.value.type # "object"
    THEN [isNull |-> TRUE, entries |-> <<>>]
    ELSE [isNull |-> FALSE, entries |-> raw.value.entries]

\* parsedPlan?.[pkg.name] || []
PlannedFor(parsedPlan, pkg) ==
    IF ~parsedPlan.isNull /\ pkg.name \in DOMAIN parsedPlan.entries
    THEN parsedPlan.entries[pkg.name]
    ELSE <<>>

\* itemById.get(id) of a known id: the last item with that id
ItemById(items, id) == items[Max({i \in 1..Len(items) : items[i].id = id})]

\* lines 390-397: the entries that name an input item become tasks; the
\* complexity is read from the entry at the task's position
PlannedTasks(planned, items) ==
    LET known == SelectSeq(planned, LAMBDA entry : \E i \in 1..Len(items) : items[i].id = entry.id)
    IN  [index \in 1..Len(known) |->
            toPlanTask(ItemById(items, known[index].id), planned[index].complexity)]

\* lines 388-405
PlannedPackages(parsedPlan, items, packages) ==
    [p \in 1..Len(packages) |->
        [packageKey |-> ToLowerCase(packages[p].name),
         packageName |-> packages[p].name,
         packagePath |-> packages[p].rootPath,
         role |-> packages[p].role,
         tasks |-> PlannedTasks(PlannedFor(parsedPlan, packages[p]), items)]]

TaskIds(tasks) == {tasks[i].id : i \in 1..Len(tasks)}

PlannedIds(resultPackages) ==
    UNION {TaskIds(resultPackages[p].tasks) : p \in 1..Len(resultPackages)}

\* lines 409-419: the first package whose score is above every earlier one,
\* 0 when no score is above zero
BestPackage(item, packages) ==
    LET best == Max({0} \cup {scorePackageMatch(item, packages[p]) : p \in 1..Len(packages)})
    IN  IF best = 0 THEN 0
        ELSE Min({p \in 1..Len(packages) : scorePackageMatch(item, packages[p]) = best})

\* lines 407-425: the items the plan did not claim, in input order
RECURSIVE FallbackAssign(_, _, _, _)
FallbackAssign(resultPackages, claimedIds, items, packages) ==
    IF items = <<>> THEN [packages |-> resultPackages, claimedIds |-> claimedIds]
    ELSE LET item == Head(items)
             bestPkg == BestPackage(item, packages)
             targets == IF bestPkg = 0 THEN {}
                        ELSE {t \in 1..Len(resultPackages) :
                                 resultPackages[t].packageName = packages[bestPkg].name}
         IN  IF item.id \in claimedIds \/ targets = {}
             THEN FallbackAssign(resultPackages, claimedIds, Tail(items), packages)
             ELSE FallbackAssign(
                      [resultPackages EXCEPT ![Min(targets)].tasks = Append(@, toPlanTask(item, Absent))],
                      claimedIds \cup {item.id}, Tail(items), packages)

\* lines 386-435: the plan made of the manager's response
BuildPlan(items, packages, response, managerAgentType, contextRefreshed) ==
    LET parsedPlan == parseJsonPlan(response)
        planned == PlannedPackages(parsedPlan, items, packages)
        matched == FallbackAssign(planned, PlannedIds(planned), items, packages)
        left == SelectSeq(items, LAMBDA item : item.id \notin matched.claimedIds)
    IN  [manager |-> managerAgentType,
         packages |-> SelectSeq(matched.packages, LAMBDA pkg : Len(pkg.tasks) > 0),
         unassigned |-> [i \in 1..Len(left) |-> toPlanTask(left[i], Absent)],
         contextRefreshed |-> contextRefreshed]

\* task-routing.ts 10-12
normalizeTag(tag) == ToLowerCase(Trim(tag))

hasUiTag(tags) == \E i \in 1..Len(tags) : normalizeTag(tags[i]) = <<"u", "i">>
hasLogicTag(tags) == \E i \in 1..Len(tags) : normalizeTag(tags[i]) = <<"l", "o", "g", "i", "c">>

\* task-routing.ts 38-43
routeAgentForTags(tags) ==
    IF hasUiTag(tags) /\ ~hasLogicTag(tags) THEN "gemini-cli" ELSE "codex"

\* tasks.flatMap((task) => task.tags || [])
RECURSIVE FlatTags(_)
FlatTags(tasks) == IF tasks = <<>> THEN <<>> ELSE Head(tasks).tags \o FlatTags(Tail(tasks))

\* p.replace(/\\/g, '/')
ForwardSlashes(p) == [i \in 1..Len(p) |-> IF p[i] = "\\" THEN "/" ELSE p[i]]

\* lines 442-451: the first top-level session, idle and of the routed type
\* where it says, whose path is the package's, or 0
Reusable(pkg, routedWorkerType, existingSessions) ==
    LET fits == {i \in 1..Len(existingSessions) :
                    LET session == existingSessions[i]
                    IN  /\ session.id # Absent /\ session.parentSessionId = Absent
                        /\ session.state \in {Absent, "idle"}
                        /\ session.toolType \in {Absent, routedWorkerType}
                        /\ ForwardSlashes(IF session.projectRoot # <<>> THEN session.projectRoot
                                          ELSE session.cwd)
                           = ForwardSlashes(pkg.packagePath)}
    IN  IF fits = {} THEN 0 ELSE Min(fits)

\* lines 438-473 (routeAgentForTags always names a type, so the default
\* worker type of findWorkerType is never used)
executeSprintPlan(plan, existingSessions) ==
    [workers |->
        [p \in 1..Len(plan.packages) |->
            LET pkg == plan.packages[p]
                routedWorkerType == routeAgentForTags(FlatTags(pkg.tasks))
                reusable == Reusable(pkg, routedWorkerType, existingSessions)
            IN  [packageKey |-> pkg.packageKey,
                 packageName |-> pkg.packageName,
                 action |-> IF reusable # 0 THEN "reuse" ELSE "create",
                 workerType |-> routedWorkerType,
                 status |-> IF Len(pkg.tasks) > 0 THEN "busy" ELSE "idle",
                 tasks |-> pkg.tasks]]]

(***************************************************************************)
(* OrchestratorService: generateSprintPlan and executeSprintPlan.  A call  *)
(* of generateSprintPlan runs in up to three steps, cut at its awaits.     *)
(***************************************************************************)
MaxPlanCalls == 2

ORCHESTRATOR_CONTEXT_WINDOW_TOKENS == 200000
\* ORCHESTRATOR_CONTEXT_WINDOW_TOKENS * CONTEXT_DANGER_ZONE_RATIO (0.8)
DangerZoneTokens == (ORCHESTRATOR_CONTEXT_WINDOW_TOKENS * 8) \div 10

STATE_RESTORE_PREFIX == <<"S", "T", "A", "T", "E", "_", "R", "E", "S", "T", "O", "R", "E", ":">>

NoPrompt == [items |-> <<>>, packages |-> <<>>]
NoResponse == [form |-> "blank", value |-> [type |-> "null", entries |-> <<>>]]

\* A turn of chatHistory.  The content of a user turn is the planning prompt
\* built from the items and packages (buildManagerPrompt), of an assistant
\* turn the manager's response or the restore paragraph.
UserTurn(items, packages) ==
    [role |-> "user", text |-> <<>>,
     prompt |-> [items |-> items, packages |-> packages], response |-> NoResponse]
AssistantTurn(response) ==
    [role |-> "assistant", text |-> <<>>, prompt |-> NoPrompt, response |-> response]
RestoreTurn(text) ==
    [role |-> "assistant", text |-> text, prompt |-> NoPrompt, response |-> NoResponse]

IdlePlanning ==
    [pc |-> "idle", items |-> <<>>, packages |-> <<>>, estimated |-> 0,
     before |-> <<>>, atIssue |-> <<>>, contextRefreshed |-> FALSE, summary |-> <<>>,
     response |-> NoResponse]

\* lines 302-305; estimated is what estimateTokenCount made of the
\* serialized conversation
shouldRefreshContext(estimated) == estimated >= DangerZoneTokens

\* s.replace(/\s+/g, ' ')
RECURSIVE CollapseWhitespace(_)
CollapseWhitespace(s) ==
    IF s = <<>> THEN <<>>
    ELSE IF IsWhitespace(Head(s)) THEN <<" ">> \o CollapseWhitespace(TrimStart(s))
    ELSE <<Head(s)>> \o CollapseWhitespace(Tail(s))

\* lines 349-361 and 374-435: the plan of a call with no items
EmptyPlan(managerAgentType) ==
    [manager |-> managerAgentType, packages |-> <<>>, unassigned |-> <<>>,
     contextRefreshed |-> FALSE]

\* lines 370-381: the planning prompt goes to the manager agent
issuePlanPrompt(o) ==
    [o EXCEPT !.planning.pc = "planning",
              !.planning.atIssue = o.chatHistory,
              !.managerCalls = @ + 1]

\* generateSprintPlan that asks the manager even for an empty board
generateSprintPlanAlwaysAsks(o, items, packages, estimated) ==
    LET refresh == shouldRefreshContext(estimated)
        started == [o EXCEPT !.planCalls = @ + 1,
                             !.lastExecution = <<>>,
                             !.planning = [IdlePlanning EXCEPT
                                               !.items = items, !.packages = packages,
                                               !.estimated = estimated,
                                               !.before = o.chatHistory,
                                               !.contextRefreshed = refresh]]
    IN  IF refresh /\ o.chatHistory # <<>>
        THEN [started EXCEPT !.planning.pc = "condensing", !.managerCalls = @ + 1]
        ELSE issuePlanPrompt(started)

\* generateSprintPlan up to its first await (lines 344-372, condenseContext
\* 307-325)
generateSprintPlan(o, items, packages, estimated) ==
    LET refresh == shouldRefreshContext(estimated)
        started == [o EXCEPT !.planCalls = @ + 1,
                             !.lastExecution = <<>>,
                             !.planning = [IdlePlanning EXCEPT
                                               !.items = items, !.packages = packages,
                                               !.estimated = estimated,
                                               !.before = o.chatHistory,
                                               !.contextRefreshed = refresh]]
    IN  IF items = <<>>
        THEN [o EXCEPT !.planCalls = @ + 1,
                       !.lastExecution = <<>>,
                       !.planning = [IdlePlanning EXCEPT !.pc = "returned"],
                       !.lastPlan = <<EmptyPlan("claude-code")>>]
        ELSE IF refresh /\ o.chatHistory # <<>>
        THEN [started EXCEPT !.planning.pc = "condensing", !.managerCalls = @ + 1]
        ELSE issuePlanPrompt(started)

\* condenseContext from the summary on (lines 327-337), then the planning
\* prompt
afterSummary(o, summary) ==
    LET normalized == Trim(CollapseWhitespace(summary))
        restoreParagraph ==
            IF Len(normalized) > 0 THEN normalized
            ELSE <<"C", "u", "r", "r", "e", "n", "t", " ", "p", "l", "a", "n", " ", "a", "n", "d", " ", "b", "l", "o", "c", "k", "e", "r", "s", " ", "w", "e", "r", "e", " ", "n", "o", "t", " ", "a", "v", "a", "i", "l", "a", "b", "l", "e", ".">>
    IN  issuePlanPrompt(
            [o EXCEPT !.planning.summary = summary,
                      !.chatHistory = <<RestoreTurn(STATE_RESTORE_PREFIX \o <<" ">> \o restoreParagraph)>>])

\* generateSprintPlan from the manager's response on (lines 382-435)
afterManagerResponse(o, response) ==
    [o EXCEPT !.chatHistory = @ \o <<UserTurn(o.planning.items, o.planning.packages),
                                     AssistantTurn(response)>>,
              !.lastPlan = <<BuildPlan(o.planning.items, o.planning.packages, response,
                                       "claude-code", o.planning.contextRefreshed)>>,
              !.planning.response = response,
              !.planning.pc = "returned"]

\* groomContext rejects and the call with it
groomContextFailed(o) == [o EXCEPT !.planning.pc = "failed"]

\* No generateSprintPlan call is under way
PlanningAtRest(o) == o.planning.pc \in {"idle", "returned", "failed"}

\* Inputs.  A board and a monorepo:
CartItem ==
    [id |-> 1, title |-> <<"F", "i", "x", " ", "C", "a", "r", "t", " ", "m", "f", "e", " ", "b", "u", "t", "t", "o", "n">>, description |-> <<>>,
     acceptanceCriteria |-> <<>>, tags |-> <<<<"u", "i">>>>, url |-> <<>>]
TuneItem ==
    [id |-> 2, title |-> <<"t", "u", "n", "e", " ", "M", "F", "E", " ", "s", "t", "a", "t", "e", " ", "a", "p", "i">>, description |-> <<>>,
     acceptanceCriteria |-> <<>>, tags |-> <<<<"L", "o", "g", "i", "c">>>>, url |-> <<>>]
DocsItem ==
    [id |-> 3, title |-> <<"d", "o", "c", "s">>, description |-> <<>>,
     acceptanceCriteria |-> <<>>, tags |-> <<>>, url |-> <<>>]
CartPackage == [name |-> <<"C", "a", "r", "t">>, role |-> "remote", rootPath |-> <<"a", "p", "p", "s", "/", "c", "a", "r", "t">>]
PayPackage == [name |-> <<"p", "a", "y">>, role |-> "remote", rootPath |-> <<"a", "p", "p", "s", "/", "p", "a", "y">>]

Boards ==
    { [items |-> <<CartItem>>, packages |-> <<CartPackage>>],
      [items |-> <<CartItem, TuneItem, DocsItem>>, packages |-> <<CartPackage, PayPackage>>],
      [items |-> <<TuneItem, CartItem>>, packages |-> <<PayPackage, CartPackage>>] }

\* What the manager agent answers: prose, nothing, JSON that is no object,
\* and plans that claim nothing, one item, an item twice, an unknown id
\* before a known one, and one item for two packages
PlanObject(entries) == [type |-> "object", entries |-> entries]
Entry(id, complexity) == [id |-> id, complexity |-> complexity]
ManagerResponses ==
    { [form |-> "prose", value |-> [type |-> "null", entries |-> <<>>]],
      [form |-> "blank", value |-> [type |-> "null", entries |-> <<>>]],
      [form |-> "json", value |-> [type |-> "array", entries |-> <<>>]],
      [form |-> "json", value |-> PlanObject(<<>>)],
      [form |-> "fenced", value |-> PlanObject([k \in {<<"C", "a", "r", "t">>} |-> <<Entry(1, "High")>>])],
      [form |-> "json", value |-> PlanObject([k \in {<<"C", "a", "r", "t">>} |-> <<Entry(1, Absent), Entry(1, Absent)>>])],
      [form |-> "json", value |-> PlanObject([k \in {<<"C", "a", "r", "t">>} |-> <<Entry(99, "High"), Entry(1, Absent)>>])],
      [form |-> "json", value |-> PlanObject([k \in {<<"C", "a", "r", "t">>, <<"p", "a", "y">>} |-> <<Entry(2, "Low")>>])] }

\* What the manager agent answers when asked for the summary
ManagerSummaries == { <<"P", "l", "a", "n", ":", " ", " ", "c", "a", "r", "t", "\n", " ", "f", "i", "r", "s", "t", " ">>, <<" ", "\n">> }

\* The sessions executeSprintPlan is handed
ExistingSessionLists ==
    { <<>>,
      <<[id |-> "s1", parentSessionId |-> Absent, state |-> "idle", toolType |-> Absent,
         projectRoot |-> <<>>, cwd |-> <<"a", "p", "p", "s", "\\", "c", "a", "r", "t">>]>> }

(***************************************************************************)
(* OrchestratorService: the 'agent:terminated' listener.  File paths are   *)
(* sequences of path segments.                                             *)
(***************************************************************************)
MaxTerminations == 3

\* The service after construction (lines 161-172); reads holds the listener
\* activations waiting on fs.readFile, audits the auditTask calls made, and
\* lastRead the activation that ran last with the file content it was given.
\* workspace is the board and monorepo the planning calls are made on,
\* planning the generateSprintPlan call under way or last made, managerCalls
\* the number of groomContext calls, lastPlan and lastExecution what the last
\* generateSprintPlan and executeSprintPlan returned.
NewOrchestrator ==
    [workerTerminationBySessionId |-> <<>>,
     taskAuditByTaskId |-> <<>>,
     taskRepoRootByTaskId |-> <<>>,
     chatHistory |-> <<>>,
     listenerAttached |-> TRUE,
     workspace |-> NoPrompt,
     planCalls |-> 0,
     managerCalls |-> 0,
     planning |-> IdlePlanning,
     lastPlan |-> <<>>,
     lastExecution |-> <<>>,
     terminations |-> 0,
     reads |-> <<>>,
     audits |-> <<>>,
     lastRead |-> <<>>]

\* Map.prototype.set
MapSet(map, key, value) ==
    [k \in DOMAIN map \cup {key} |-> IF k = key THEN value ELSE map[k]]

\* The review-gate mapping with High treated like any other level
DecisionNoReviewGate(riskLevel) ==
    IF riskLevel = "Low" THEN "auto-approved" ELSE "recorded"

\* lines 182-187
Decision(riskLevel) ==
    IF riskLevel = "Low" THEN "auto-approved"
    ELSE IF riskLevel = "High" THEN "review-gate"
    ELSE "recorded"

\* path.dirname
Dirname(p) == IF p = <<>> THEN <<>> ELSE SubSeq(p, 1, Len(p) - 1)

\* path.resolve(path.dirname(reportPath), '..', '..')
RepoRootOf(reportPath) == Dirname(Dirname(Dirname(reportPath)))

\* report.<name> of the value JSON.parse returned: a property read on null
\* throws, on a number it is undefined
HasProperties(content) == content.json # "null"
PropertyOf(content, name) ==
    IF content.json = "object" THEN content[name] ELSE Absent

\* auditTask as far as its call: the task and the repository it will diff
auditTaskCalled(o, taskId, repositoryRoot) ==
    [o EXCEPT !.audits = Append(@, [taskId |-> taskId, repositoryRoot |-> repositoryRoot])]

\* The listener up to `await fs.readFile` (lines 178-183)
onAgentTerminated(o, sessionId, reportPath) ==
    IF sessionId = Absent \/ reportPath = <<>>
    THEN [o EXCEPT !.terminations = @ + 1]
    ELSE [o EXCEPT !.terminations = @ + 1,
                   !.reads = Append(@, [sessionId |-> sessionId, reportPath |-> reportPath])]

\* The listener from the settling of fs.readFile on (lines 183-203)
onReportRead(o, read, content) ==
    LET riskLevel == PropertyOf(content, "riskLevel")
        taskId == PropertyOf(content, "taskId")
        repoRoot == RepoRootOf(read.reportPath)
        recorded ==
            [o EXCEPT !.workerTerminationBySessionId =
                          MapSet(@, read.sessionId,
                                 [reportPath |-> read.reportPath,
                                  decision |-> Decision(riskLevel)]),
                      !.taskRepoRootByTaskId = MapSet(@, taskId, repoRoot)]
    IN  IF ~content.exists \/ content.json = "malformed" \/ ~HasProperties(content)
        THEN o
        ELSE IF riskLevel = "High"
        THEN auditTaskCalled(recorded, taskId, repoRoot)
        ELSE recorded

\* Inputs: the sessions and report paths events carry (a worker's report is
\* <reportRoot>/.guru/reports/<taskId>.json, worker-agent.ts 390-395; an
\* auditor's terminate reports the empty path), and what the file holds
\* when it is read
SessionIds == { "s1", "s2", Absent }
ReportPaths ==
    { <<"wt1", ".guru", "reports", "t1.json">>,
      <<"wt2", ".guru", "reports", "t2.json">>,
      <<>> }
RiskLevels == { "Low", "Medium", "High", "high", Absent }
ReportContents ==
    { [exists |-> FALSE, json |-> "none", riskLevel |-> Absent, taskId |-> Absent],
      [exists |-> TRUE, json |-> "malformed", riskLevel |-> Absent, taskId |-> Absent],
      [exists |-> TRUE, json |-> "null", riskLevel |-> Absent, taskId |-> Absent],
      [exists |-> TRUE, json |-> "number", riskLevel |-> Absent, taskId |-> Absent] } \cup
    { [exists |-> TRUE, json |-> "object", riskLevel |-> r, taskId |-> t] :
        r \in RiskLevels, t \in {"t1", "t2"} }

RemoveAt(seq, i) == SubSeq(seq, 1, i - 1) \o SubSeq(seq, i + 1, Len(seq))

\* processManager emits 'agent:terminated'
AgentTerminated ==
    \E sessionId \in SessionIds, reportPath \in ReportPaths :
        /\ orch.terminations < MaxTerminations
        /\ orch' = onAgentTerminated(orch, sessionId, reportPath)

\* fs.readFile settles for one of the activations waiting on it
ReportRead ==
    \E i \in 1..Len(orch.reads), content \in ReportContents :
        orch' = [onReportRead([orch EXCEPT !.reads = RemoveAt(@, i)], orch.reads[i], content)
                    EXCEPT !.lastRead = <<[read |-> orch.reads[i], content |-> content]>>]

TerminationInit ==
    /\ orch = NewOrchestrator
    /\ SigIdle
    /\ McpIdle
    /\ AdoIdle
    /\ BoardIdle

TerminationNext ==
    \/ AgentTerminated /\ UNCHANGED nonOrchVars
    \/ ReportRead /\ UNCHANGED nonOrchVars

SpecTermination == TerminationInit /\ [][TerminationNext]_vars

(***************************************************************************)
(* ado:runAgentTask and the audit: the branch and worktree a run creates,  *)
(* the report its worker writes, and the diff the termination listener's   *)
(* audit makes.  ado holds the repository's branches, the workers started, *)
(* the files written and the git diff commands run.                        *)
(***************************************************************************)
MaxRuns == 2

AuditTicketIds == {7, 42}
AuditSessionIds == <<"s1", "s2">>
RepoRoot == <<<<"r", "e", "p", "o">>>>
MainBranch == <<"m", "a", "i", "n">>

\* value.replace(/[^a-z0-9]+/g, '-')
DashOtherRuns(s) ==
    LET isSlugChar(c) == c \in LowerSet \/ c \in DigitSet
        marked == [i \in 1..Len(s) |->
                     IF isSlugChar(s[i]) THEN s[i]
                     ELSE IF i = 1 \/ isSlugChar(s[i - 1]) THEN "-"
                     ELSE "skip"]
    IN  SelectSeq(marked, LAMBDA c : c # "skip")

\* value.replace(/^-+|-+$/g, '')
RECURSIVE StripDashes(_)
StripDashes(s) ==
    IF s # <<>> /\ Head(s) = "-" THEN StripDashes(Tail(s))
    ELSE IF s # <<>> /\ s[Len(s)] = "-" THEN StripDashes(SubSeq(s, 1, Len(s) - 1))
    ELSE s

\* ado.ts 246-252
slugify(value, fallback) ==
    LET cleaned == StripDashes(DashOtherRuns(ToLowerCase(value)))
    IN  IF cleaned = <<>> THEN fallback ELSE cleaned

\* ado.ts 734: `feat/ado-${ticketId}`
branchOfTicket(ticketId) == <<"f", "e", "a", "t", "/", "a", "d", "o", "-">> \o ToDigits(ticketId)

\* ado.ts 733 and 735
worktreePathOfTicket(repoRoot, ticketId) ==
    repoRoot \o <<<<".", "g", "u", "r", "u">>, <<"w", "o", "r", "k", "t", "r", "e", "e", "s">>,
                  slugify(<<"f", "e", "a", "t", "-", "a", "d", "o", "-">> \o ToDigits(ticketId), <<"f", "e", "a", "t">>)>>

\* ado.ts 875: `ADO-${ticketId}`
taskIdOfTicket(ticketId) == <<"A", "D", "O", "-">> \o ToDigits(ticketId)

\* worker-agent.ts 390-395: <reportRoot>/.guru/reports/<taskId>.json
reportPathOf(reportRoot, taskId) ==
    reportRoot \o <<<<".", "g", "u", "r", "u">>, <<"r", "e", "p", "o", "r", "t", "s">>, taskId \o <<".", "j", "s", "o", "n">>>>

\* part_002 257: `feat/task-${taskId}`
branchRefOfTask(taskId) == <<"f", "e", "a", "t", "/", "t", "a", "s", "k", "-">> \o taskId

\* The repository before any run; it may hold branches of its own
NewRepository(otherBranches) ==
    [branches |-> {MainBranch} \cup otherBranches,
     workers |-> <<>>,
     files |-> <<>>,
     diffs |-> <<>>]

\* ado:runAgentTask as far as the worker's creation (lines 733-891): the
\* branch is created unless it exists, the worktree is added, and the worker
\* is given its task id and the worktree as its report root
runAgentTask(a, ticketId, sessionId) ==
    [a EXCEPT !.branches = @ \cup {branchOfTicket(ticketId)},
              !.workers = Append(@, [sessionId |-> sessionId,
                                     ticketId |-> ticketId,
                                     branch |-> branchOfTicket(ticketId),
                                     taskId |-> taskIdOfTicket(ticketId),
                                     reportRoot |-> worktreePathOfTicket(RepoRoot, ticketId),
                                     terminated |-> FALSE])]

\* git diff main...<branchRef>: 0 when the branch exists, else git's 128
gitDiffExitCode(a, branchRef) == IF branchRef \in a.branches THEN 0 ELSE 128

\* auditTask from its diff on (part_002 256-273)
auditTask(o, taskId, exitCode, findings) ==
    LET branchRef == branchRefOfTask(taskId)
        verdict == IF exitCode = 0 /\ findings = 0 THEN "AUDIT_PASS" ELSE "AUDIT_FAIL"
    IN  [o EXCEPT !.taskAuditByTaskId =
                      MapSet(@, taskId, [taskId |-> taskId, verdict |-> verdict,
                                         branch |-> branchRef])]

RunAgentTask ==
    \E ticketId \in AuditTicketIds :
        /\ Len(ado.workers) < MaxRuns
        /\ ado' = runAgentTask(ado, ticketId, AuditSessionIds[Len(ado.workers) + 1])
        /\ UNCHANGED orch

\* The worker terminates: it writes its report and 'agent:terminated' is
\* emitted with the report's path
WorkerTerminated ==
    \E k \in 1..Len(ado.workers), riskLevel \in {"Low", "Medium", "High"} :
        LET w == ado.workers[k]
            reportPath == reportPathOf(w.reportRoot, w.taskId)
        IN  /\ ~w.terminated
            /\ ado' = [ado EXCEPT !.workers[k].terminated = TRUE,
                                  !.files = MapSet(@, reportPath,
                                                   [exists |-> TRUE, json |-> "object",
                                                    riskLevel |-> riskLevel,
                                                    taskId |-> w.taskId])]
            /\ orch' = onAgentTerminated(orch, w.sessionId, reportPath)

\* fs.readFile settles for one of the listener's activations
WorkerReportRead ==
    \E i \in 1..Len(orch.reads) :
        LET read == orch.reads[i]
            content == ado.files[read.reportPath]
        IN  /\ orch' = [onReportRead([orch EXCEPT !.reads = RemoveAt(@, i)], read, content)
                           EXCEPT !.lastRead = <<[read |-> read, content |-> content]>>]
            /\ UNCHANGED ado

\* The next audit called runs its diff and records its verdict
AuditDiffed ==
    \E findings \in {0, 1} :
        /\ Len(ado.diffs) < Len(orch.audits)
        /\ LET audit == orch.audits[Len(ado.diffs) + 1]
               branchRef == branchRefOfTask(audit.taskId)
               exitCode == gitDiffExitCode(ado, branchRef)
           IN  /\ exitCode # 0 => findings = 1
               /\ ado' = [ado EXCEPT !.diffs =
                              Append(@, [taskId |-> audit.taskId,
                                         cwd |-> audit.repositoryRoot,
                                         base |-> MainBranch,
                                         branchRef |-> branchRef,
                                         exitCode |-> exitCode])]
               /\ orch' = auditTask(orch, audit.taskId, exitCode, findings)

AuditInit ==
    /\ \E otherBranches \in SUBSET {branchRefOfTask(taskIdOfTicket(7))} :
           ado = NewRepository(otherBranches)
    /\ orch = NewOrchestrator
    /\ SigIdle
    /\ McpIdle
    /\ BoardIdle

AuditNext ==
    \/ RunAgentTask /\ UNCHANGED <<sigVars, mcpVars, boardVars>>
    \/ WorkerTerminated /\ UNCHANGED <<sigVars, mcpVars, boardVars>>
    \/ WorkerReportRead /\ UNCHANGED <<sigVars, mcpVars, boardVars>>
    \/ AuditDiffed /\ UNCHANGED <<sigVars, mcpVars, boardVars>>

SpecAudit == AuditInit /\ [][AuditNext]_vars

(***************************************************************************)
(* Sprint planning on one board                                            *)
(***************************************************************************)
\* What estimateTokenCount returns for the serialized conversation: the
\* lengths of the texts are outside the model, so the estimate is an input,
\* taken around the danger zone's edge
TokenEstimates == { DangerZoneTokens - 1, DangerZoneTokens, DangerZoneTokens + 1 }

GenerateSprintPlan ==
    /\ PlanningAtRest(orch)
    /\ orch.planCalls < MaxPlanCalls
    /\ \E items \in {<<>>, orch.workspace.items}, estimated \in TokenEstimates :
          orch' = generateSprintPlan(orch, items, orch.workspace.packages, estimated)

SummaryArrives ==
    /\ orch.planning.pc = "condensing"
    /\ \E summary \in ManagerSummaries : orch' = afterSummary(orch, summary)

ManagerAnswers ==
    /\ orch.planning.pc = "planning"
    /\ \E response \in ManagerResponses : orch' = afterManagerResponse(orch, response)

ManagerFails ==
    /\ orch.planning.pc \in {"condensing", "planning"}
    /\ orch' = groomContextFailed(orch)

ExecuteSprintPlan ==
    /\ PlanningAtRest(orch)
    /\ orch.lastPlan # <<>>
    /\ orch.lastExecution = <<>>
    /\ \E existingSessions \in ExistingSessionLists :
          orch' = [orch EXCEPT !.lastExecution =
                                  <<executeSprintPlan(orch.lastPlan[1], existingSessions)>>]

PlanInit ==
    /\ \E workspace \in Boards : orch = [NewOrchestrator EXCEPT !.workspace = workspace]
    /\ SigIdle
    /\ McpIdle
    /\ AdoIdle
    /\ BoardIdle

PlanNext ==
    \/ GenerateSprintPlan /\ UNCHANGED nonOrchVars
    \/ SummaryArrives /\ UNCHANGED nonOrchVars
    \/ ManagerAnswers /\ UNCHANGED nonOrchVars
    \/ ManagerFails /\ UNCHANGED nonOrchVars
    \/ ExecuteSprintPlan /\ UNCHANGED nonOrchVars

SpecPlan == PlanInit /\ [][PlanNext]_vars

(***************************************************************************)
(* AdoBoardService.moveItemToColumn.  A call runs in up to three steps,    *)
(* cut where it awaits the reply to a PATCH.  The board columns are those  *)
(* resolveBoardContext delivers (part_002:858-877).                        *)
(***************************************************************************)
MaxMoves == 2

\* raw.slice(0, 500), line 810
MessageLimit == 500

LaneToDo == <<"T", "o", "-", "D", "o">>
LaneActive == <<"A", "c", "t", "i", "v", "e">>
LaneReview == <<"R", "e", "v", "i", "e", "w">>
LaneResolved == <<"R", "e", "s", "o", "l", "v", "e", "d">>
LaneClosed == <<"C", "l", "o", "s", "e", "d">>
\* line 564
KANBAN_LANES == {LaneToDo, LaneActive, LaneReview, LaneResolved, LaneClosed}
NoLane == <<>>

\* [a-z0-9]
IsLabelChar(c) == c \in LowerSet \/ c \in DigitSet

\* s.replace(/[^a-z0-9]+/g, ' ')
RECURSIVE DropLabelRun(_)
DropLabelRun(s) == IF s # <<>> /\ ~IsLabelChar(Head(s)) THEN DropLabelRun(Tail(s)) ELSE s
RECURSIVE ReplaceLabelRuns(_)
ReplaceLabelRuns(s) ==
    IF s = <<>> THEN <<>>
    ELSE IF IsLabelChar(Head(s)) THEN <<Head(s)>> \o ReplaceLabelRuns(Tail(s))
    ELSE <<" ">> \o ReplaceLabelRuns(DropLabelRun(s))

\* lines 573-575
normalizeLabel(value) == Trim(ReplaceLabelRuns(ToLowerCase(value)))

\* lines 577-579
hasWord(normalized, word) ==
    \E i \in 1..Len(SplitBy(normalized, " ")) : SplitBy(normalized, " ")[i] = word

\* lines 684-723; null is NoLane
classifyLaneByName(name) ==
    LET normalized == normalizeLabel(name)
    IN  IF normalized = <<>> THEN NoLane
        ELSE IF \/ Includes(normalized, <<"c", "l", "o", "s", "e", "d">>)
                \/ Includes(normalized, <<"c", "o", "m", "p", "l", "e", "t", "e">>)
                \/ normalized = <<"d", "o", "n", "e">>
        THEN LaneClosed
        ELSE IF \/ Includes(normalized, <<"r", "e", "s", "o", "l", "v", "e", "d">>)
                \/ Includes(normalized, <<"r", "e", "a", "d", "y", " ", "f", "o", "r", " ", "q", "a">>)
                \/ Includes(normalized, <<"q", "a">>)
        THEN LaneResolved
        ELSE IF \/ Includes(normalized, <<"r", "e", "v", "i", "e", "w">>)
                \/ hasWord(normalized, <<"p", "r">>)
                \/ Includes(normalized, <<"p", "u", "l", "l", " ", "r", "e", "q", "u", "e", "s", "t">>)
        THEN LaneReview
        ELSE IF \/ Includes(normalized, <<"a", "c", "t", "i", "v", "e">>)
                \/ Includes(normalized, <<"i", "n", " ", "p", "r", "o", "g", "r", "e", "s", "s">>)
                \/ Includes(normalized, <<"d", "o", "i", "n", "g">>)
                \/ Includes(normalized, <<"d", "e", "v", "e", "l", "o", "p">>)
                \/ Includes(normalized, <<"b", "u", "i", "l", "d">>)
                \/ Includes(normalized, <<"t", "e", "s", "t">>)
        THEN LaneActive
        ELSE IF \/ Includes(normalized, <<"t", "o", " ", "d", "o">>)
                \/ Includes(normalized, <<"t", "o", "d", "o">>)
                \/ Includes(normalized, <<"n", "e", "w">>)
                \/ Includes(normalized, <<"b", "a", "c", "k", "l", "o", "g">>)
        THEN LaneToDo
        ELSE NoLane

\* lines 581-597 for a missing value and for an object of work-item type ->
\* state name (the form the columns endpoint returns); raw.values is
\* Object.values(raw)
extractStateMappings(raw) ==
    IF raw.missing THEN <<>>
    ELSE SelectSeq([i \in 1..Len(raw.values) |-> Trim(raw.values[i])], LAMBDA v : v # <<>>)

\* lines 864-872: one column of the resolved board
BoardColumn(name, lane, raw) ==
    [name |-> name, lane |-> lane, stateMappings |-> extractStateMappings(raw)]

\* The failure fetchJson throws for a response that is not ok, lines 808-812
RequestFailed(reply) ==
    LET raw == Trim(reply.body)
        message == IF raw # <<>>
                   THEN SubSeq(raw, 1, Min({Len(raw), MessageLimit}))
                   ELSE reply.statusText
    IN  <<"A", "D", "O", " ", "r", "e", "q", "u", "e", "s", "t", " ", "f", "a", "i", "l", "e", "d", " ", "(">> \o reply.status \o <<")", ":", " ">> \o message

\* The message of the Error a PATCH ends with: fetchJson's own, or the one
\* fetch rejected with
ErrorMessage(reply) == IF reply.kind = "rejected" THEN reply.body ELSE RequestFailed(reply)

\* message.includes(needle), by position
MessageIncludes(message, needle) ==
    \E i \in 1..(Len(message) - Len(needle) + 1) :
        SubSeq(message, i, i + Len(needle) - 1) = needle

\* lines 605-609 without toLowerCase()
isBoardColumnReadOnlyErrorCaseSensitive(message) ==
    MessageIncludes(message, <<"s", "y", "s", "t", "e", "m", ".", "b", "o", "a", "r", "d", "c", "o", "l", "u", "m", "n">>) /\ MessageIncludes(message, <<"r", "e", "a", "d", "o", "n", "l", "y">>)

\* lines 605-609; everything fetchJson throws is an Error
isBoardColumnReadOnlyError(message) ==
    LET lowered == ToLowerCase(message)
    IN  MessageIncludes(lowered, <<"s", "y", "s", "t", "e", "m", ".", "b", "o", "a", "r", "d", "c", "o", "l", "u", "m", "n">>) /\ MessageIncludes(lowered, <<"r", "e", "a", "d", "o", "n", "l", "y">>)

BoardColumnPath == "/fields/System.BoardColumn"
StatePath == "/fields/System.State"

NoOutcome == [kind |-> "none", message |-> <<>>, id |-> 0, state |-> <<>>, boardColumn |-> <<>>]
Threw(message) == [NoOutcome EXCEPT !.kind = "threw", !.message = message]

NewBoardService ==
    [pc |-> "idle", moves |-> 0, ticketId |-> 0, target |-> <<>>, targetState |-> <<>>,
     patches |-> <<>>, firstReply |-> <<>>, outcome |-> NoOutcome]

\* lines 1190-1195
MoveResult(b, reply) ==
    [NoOutcome EXCEPT
        !.kind = "returned",
        !.id = IF reply.hasId THEN reply.id ELSE b.ticketId,
        !.state = IF reply.state # <<>> THEN reply.state ELSE b.targetState,
        !.boardColumn = IF reply.boardColumn # <<>> THEN reply.boardColumn
                        ELSE b.target[1].name]

\* lines 1125-1170: up to the first PATCH being sent.  stateMappings[0] of
\* an empty list is undefined, here <<>>
moveItemToColumn(b, ticketId, targetColumn, columns) ==
    LET fresh == [NewBoardService EXCEPT !.moves = b.moves + 1, !.ticketId = ticketId]
        targetRaw == Trim(targetColumn)
        targetLane == IF targetRaw \in KANBAN_LANES THEN targetRaw
                      ELSE classifyLaneByName(targetRaw)
        matches == SelectSeq(columns,
                      LAMBDA column :
                         \/ ToLowerCase(column.name) = ToLowerCase(targetRaw)
                         \/ (targetLane # NoLane /\ column.lane = targetLane))
        names == [i \in 1..Len(columns) |-> columns[i].name]
    IN  IF ticketId <= 0
        THEN [fresh EXCEPT !.pc = "threw",
                           !.outcome = Threw(<<"A", " ", "v", "a", "l", "i", "d", " ", "w", "o", "r", "k", " ", "i", "t", "e", "m", " ", "t", "i", "c", "k", "e", "t", "I", "d", " ", "i", "s", " ", "r", "e", "q", "u", "i", "r", "e", "d", ".">>)]
        ELSE IF targetRaw = <<>>
        THEN [fresh EXCEPT !.pc = "threw",
                           !.outcome = Threw(<<"T", "a", "r", "g", "e", "t", " ", "c", "o", "l", "u", "m", "n", " ", "i", "s", " ", "r", "e", "q", "u", "i", "r", "e", "d", ".">>)]
        ELSE IF matches = <<>>
        THEN [fresh EXCEPT !.pc = "threw",
                           !.outcome = Threw(<<"U", "n", "a", "b", "l", "e", " ", "t", "o", " ", "m", "a", "p", " ", "\"">> \o targetRaw
                                             \o <<"\"", " ", "t", "o", " ", "a", " ", "b", "o", "a", "r", "d", " ", "c", "o", "l", "u", "m", "n", ".", " ", "A", "v", "a", "i", "l", "a", "b", "l", "e", " ", "c", "o", "l", "u", "m", "n", "s", ":", " ">>
                                             \o JoinWith(names, <<",", " ">>))]
        ELSE LET target == matches[1]
                 targetState == IF target.stateMappings = <<>> THEN <<>>
                                ELSE target.stateMappings[1]
                 patchWithBoardColumn ==
                     <<[path |-> BoardColumnPath, value |-> target.name]>>
                     \o (IF targetState # <<>>
                         THEN <<[path |-> StatePath, value |-> targetState]>>
                         ELSE <<>>)
             IN  [fresh EXCEPT !.pc = "patching",
                               !.target = <<target>>,
                               !.targetState = targetState,
                               !.patches = <<patchWithBoardColumn>>]

\* lines 1164-1188: the reply to the first PATCH
afterFirstPatch(b, reply) ==
    LET seen == [b EXCEPT !.firstReply = <<reply>>]
    IN  IF reply.kind = "ok"
        THEN [seen EXCEPT !.pc = "returned", !.outcome = MoveResult(b, reply)]
        ELSE IF ~isBoardColumnReadOnlyError(ErrorMessage(reply))
        THEN [seen EXCEPT !.pc = "threw", !.outcome = Threw(ErrorMessage(reply))]
        ELSE IF b.targetState = <<>>
        THEN [seen EXCEPT !.pc = "threw",
                          !.outcome = Threw(<<"B", "o", "a", "r", "d", " ", "c", "o", "l", "u", "m", "n", " ", "i", "s", " ", "r", "e", "a", "d", "-", "o", "n", "l", "y", " ", "a", "n", "d", " ", "l", "a", "n", "e", " ", "\"">>
                                            \o b.target[1].name
                                            \o <<"\"", " ", "h", "a", "s", " ", "n", "o", " ", "s", "t", "a", "t", "e", " ", "m", "a", "p", "p", "i", "n", "g", " ", "t", "o", " ", "f", "a", "l", "l", " ", "b", "a", "c", "k", " ", "t", "o", ".">>)]
        ELSE [seen EXCEPT !.pc = "retrying",
                          !.patches = Append(@, <<[path |-> StatePath, value |-> b.targetState]>>)]

\* lines 1181-1195: the reply to the state-only PATCH
afterRetryPatch(b, reply) ==
    IF reply.kind = "ok"
    THEN [b EXCEPT !.pc = "returned", !.outcome = MoveResult(b, reply)]
    ELSE [b EXCEPT !.pc = "threw", !.outcome = Threw(ErrorMessage(reply))]

(***************************************************************************)
(* Moves of work items on one board                                        *)
(***************************************************************************)
MappedTo(values) == [missing |-> FALSE, values |-> values]
NotMapped == [missing |-> TRUE, values |-> <<>>]

\* The columns in the order fetchColumnsForContext sorts them (lane rank,
\* then name); the lanes are what mapColumnToLane gives for these names
ResolvedColumns ==
    << BoardColumn(<<"N", "e", "w">>, LaneToDo, MappedTo(<<<<"N", "e", "w">>>>)),
       BoardColumn(<<"D", "o", "i", "n", "g">>, LaneActive, MappedTo(<<<<>>, <<" ", "A", "c", "t", "i", "v", "e", " ">>, <<"C", "o", "m", "m", "i", "t", "t", "e", "d">>>>)),
       BoardColumn(<<"P", "u", "l", "l", " ", "R", "e", "q", "u", "e", "s", "t", "s">>, LaneReview, MappedTo(<<<<>>, <<" ">>>>)),
       BoardColumn(<<"R", "e", "v", "i", "e", "w">>, LaneReview, NotMapped),
       BoardColumn(<<"D", "o", "n", "e">>, LaneClosed, MappedTo(<<<<"C", "l", "o", "s", "e", "d">>>>)) >>

TicketIds == {0, 7}
TargetColumns == {<<"D", "o", "i", "n", "g">>, <<"r", "e", "v", "i", "e", "w">>, <<" ", "R", "e", "v", "i", "e", "w">>, <<"i", "n", " ", "p", "r", "o", "g", "r", "e", "s", "s">>, <<"C", "l", "o", "s", "e", "d">>, <<"N", "o", "w", "h", "e", "r", "e">>, <<" ">>}

Accepted(hasId, state, boardColumn) ==
    [kind |-> "ok", status |-> <<"2", "0", "0">>, statusText |-> <<"O", "K">>, body |-> <<>>,
     hasId |-> hasId, id |-> IF hasId THEN 7 ELSE 0, state |-> state, boardColumn |-> boardColumn]
NotOk(status, statusText, body) ==
    [kind |-> "notOk", status |-> status, statusText |-> statusText, body |-> body,
     hasId |-> FALSE, id |-> 0, state |-> <<>>, boardColumn |-> <<>>]
FetchRejected(message) ==
    [kind |-> "rejected", status |-> <<>>, statusText |-> <<>>, body |-> message,
     hasId |-> FALSE, id |-> 0, state |-> <<>>, boardColumn |-> <<>>]

AcceptedReplies ==
    { Accepted(TRUE, <<"A", "c", "t", "i", "v", "e">>, <<"D", "o", "i", "n", "g">>), Accepted(FALSE, <<>>, <<>>) }

\* The work-tracking system refuses the write of the board-column field
ReadOnlyColumnReplies ==
    { NotOk(<<"4", "0", "0">>, <<"B", "a", "d", " ", "R", "e", "q", "u", "e", "s", "t">>,
            <<"{", "\"", "m", "e", "s", "s", "a", "g", "e", "\"", ":", "\"", "T", "F", "4", "0", "1", "3", "2", "6", ":", " ", "I", "n", "v", "a", "l", "i", "d", " ", "f", "i", "e", "l", "d", " ", "s", "t", "a", "t", "u", "s", " ", "'", "R", "e", "a", "d", "O", "n", "l", "y", "'", " ", "f", "o", "r", " ", "f", "i", "e", "l", "d", " ", "'", "S", "y", "s", "t", "e", "m", ".", "B", "o", "a", "r", "d", "C", "o", "l", "u", "m", "n", "'", ".", "\"", "}">>),
      NotOk(<<"4", "0", "0">>, <<"B", "a", "d", " ", "R", "e", "q", "u", "e", "s", "t">>, <<" ", "T", "h", "e", " ", "f", "i", "e", "l", "d", " ", "s", "y", "s", "t", "e", "m", ".", "b", "o", "a", "r", "d", "c", "o", "l", "u", "m", "n", " ", "i", "s", " ", "r", "e", "a", "d", "o", "n", "l", "y", ".">>) }

OtherFailures ==
    { NotOk(<<"4", "0", "0">>, <<"B", "a", "d", " ", "R", "e", "q", "u", "e", "s", "t">>,
            <<"{", "\"", "m", "e", "s", "s", "a", "g", "e", "\"", ":", "\"", "T", "F", "4", "0", "1", "3", "2", "6", ":", " ", "I", "n", "v", "a", "l", "i", "d", " ", "f", "i", "e", "l", "d", " ", "s", "t", "a", "t", "u", "s", " ", "'", "R", "e", "a", "d", "O", "n", "l", "y", "'", " ", "f", "o", "r", " ", "f", "i", "e", "l", "d", " ", "'", "S", "y", "s", "t", "e", "m", ".", "R", "e", "a", "s", "o", "n", "'", ".", "\"", "}">>),
      NotOk(<<"4", "0", "0">>, <<"B", "a", "d", " ", "R", "e", "q", "u", "e", "s", "t">>,
            <<"{", "\"", "m", "e", "s", "s", "a", "g", "e", "\"", ":", "\"", "T", "F", "4", "0", "1", "3", "2", "0", ":", " ", "R", "u", "l", "e", " ", "E", "r", "r", "o", "r", " ", "f", "o", "r", " ", "f", "i", "e", "l", "d", " ", "S", "y", "s", "t", "e", "m", ".", "B", "o", "a", "r", "d", "C", "o", "l", "u", "m", "n", ".", " ", "E", "r", "r", "o", "r", " ", "c", "o", "d", "e", ":", " ", "L", "i", "m", "i", "t", "e", "d", "T", "o", "V", "a", "l", "u", "e", "s", ".", "\"", "}">>),
      NotOk(<<"5", "0", "0">>, <<"I", "n", "t", "e", "r", "n", "a", "l", " ", "S", "e", "r", "v", "e", "r", " ", "E", "r", "r", "o", "r">>, <<" ">>),
      FetchRejected(<<"f", "e", "t", "c", "h", " ", "f", "a", "i", "l", "e", "d">>) }

PatchReplies == AcceptedReplies \cup ReadOnlyColumnReplies \cup OtherFailures

MoveItemToColumn ==
    /\ board.pc \in {"idle", "returned", "threw"}
    /\ board.moves < MaxMoves
    /\ \E ticketId \in TicketIds, targetColumn \in TargetColumns :
          board' = moveItemToColumn(board, ticketId, targetColumn, ResolvedColumns)

FirstPatchAnswered ==
    /\ board.pc = "patching"
    /\ \E reply \in PatchReplies : board' = afterFirstPatch(board, reply)

RetryPatchAnswered ==
    /\ board.pc = "retrying"
    /\ \E reply \in PatchReplies : board' = afterRetryPatch(board, reply)

BoardInit ==
    /\ board = NewBoardService
    /\ SigIdle
    /\ McpIdle
    /\ AdoIdle
    /\ OrchIdle

BoardNext ==
    \/ MoveItemToColumn /\ UNCHANGED nonBoardVars
    \/ FirstPatchAnswered /\ UNCHANGED nonBoardVars
    \/ RetryPatchAnswered /\ UNCHANGED nonBoardVars

SpecBoard == BoardInit /\ [][BoardNext]_vars

(***************************************************************************)
(* useKanbanController: lifecycle events, the board moves they start and   *)
(* the refresh callback.  board is the mounted controller: its two ticket  *)
(* maps, its React state, the options it was given, the handleEvent        *)
(* activations so far, and the moveItemToColumn and onBoardMutation calls  *)
(* made.                                                                   *)
(***************************************************************************)
MaxEvents == 2

KanbanTicketIds == {7, 9}
\* A ticket id or pull request id that is missing (undefined)
NoTicket == 0
NoPrId == 0 - 1
LaneEventTypes ==
    {"agent:started", "agent:pr_created", "pr:created", "pr:completed", "agent:pr_merged"}

KanbanEvent(type, ticketId, sessionId, pr, errorMessage) ==
    [type |-> type, ticketId |-> ticketId,
     sessionId |-> sessionId, processSessionId |-> sessionId,
     prUrl |-> pr[1], prId |-> pr[2], errorMessage |-> errorMessage]

NoPr == <<Absent, NoPrId>>
SomePr == <<"https://dev.azure.com/pr/5", 5>>

\* Events a 'kanban:lifecycle' dispatch can carry (the KanbanAgentEvent type)
LifecycleEvents ==
    { KanbanEvent("agent:started", t, s, NoPr, Absent) :
        t \in KanbanTicketIds, s \in {"s1", Absent} } \cup
    { KanbanEvent(type, t, Absent, pr, Absent) :
        type \in {"agent:pr_created", "pr:created"}, t \in KanbanTicketIds,
        pr \in {NoPr, SomePr} } \cup
    { KanbanEvent(type, t, Absent, NoPr, Absent) :
        type \in {"pr:completed", "agent:pr_merged"}, t \in KanbanTicketIds } \cup
    { KanbanEvent("agent:error", t, s, NoPr, m) :
        t \in {7, NoTicket}, s \in {"s1", Absent}, m \in {"boom", Absent} }

\* The controller after mounting (lines 146-156); the options are the
\* caller's
NewKanbanController(boardName, onBoardMutation) ==
    [boardName |-> boardName,
     onBoardMutation |-> onBoardMutation,
     sessionTicketMap |-> <<>>,
     processTicketMap |-> <<>>,
     liveStatusByTicket |-> <<>>,
     errorByTicket |-> <<>>,
     prUrlByTicket |-> <<>>,
     prIdByTicket |-> <<>>,
     handled |-> <<>>,
     moves |-> <<>>,
     refreshes |-> <<>>]

\* The lane table without its agent:pr_merged row
eventTargetLaneWithoutMerged(event) ==
    IF event.type = "agent:started" THEN LaneActive
    ELSE IF event.type \in {"agent:pr_created", "pr:created"} THEN LaneReview
    ELSE IF event.type = "pr:completed" THEN LaneClosed
    ELSE NoLane

\* lines 111-117; null is NoLane
eventTargetLane(event) ==
    IF event.type = "agent:started" THEN LaneActive
    ELSE IF event.type \in {"agent:pr_created", "pr:created"} THEN LaneReview
    ELSE IF event.type = "pr:completed" THEN LaneClosed
    ELSE IF event.type = "agent:pr_merged" THEN LaneResolved
    ELSE NoLane

\* Object.fromEntries(Object.entries(map).filter(([key]) => Number(key) !== ticketId))
WithoutKey(map, key) == [k \in DOMAIN map \ {key} |-> map[k]]

\* map[key] of a ticket map
TicketOf(map, key) == IF key \in DOMAIN map THEN map[key] ELSE NoTicket

\* handleEvent up to its first await (lines 152-204): the activation is
\* recorded with the lane it found and where it stands
handleEvent(c, event) ==
    LET started ==
            IF event.type = "agent:started"
            THEN [c EXCEPT
                    !.sessionTicketMap =
                        IF event.sessionId # Absent
                        THEN MapSet(@, event.sessionId, event.ticketId) ELSE @,
                    !.processTicketMap =
                        IF event.processSessionId # Absent
                        THEN MapSet(@, event.processSessionId, event.ticketId) ELSE @,
                    !.liveStatusByTicket = MapSet(@, event.ticketId, "building"),
                    !.errorByTicket = WithoutKey(@, event.ticketId)]
            ELSE c
        withPr ==
            IF /\ event.type \in {"agent:pr_created", "pr:created"}
               /\ (event.prUrl # Absent \/ event.prId # NoPrId)
            THEN [started EXCEPT
                    !.prUrlByTicket =
                        IF event.prUrl # Absent
                        THEN MapSet(@, event.ticketId, event.prUrl) ELSE @,
                    !.prIdByTicket =
                        IF event.prId # NoPrId
                        THEN MapSet(@, event.ticketId, event.prId) ELSE @,
                    !.errorByTicket = WithoutKey(@, event.ticketId)]
            ELSE started
        fromSession ==
            IF event.sessionId # Absent
            THEN TicketOf(c.sessionTicketMap, event.sessionId) ELSE NoTicket
        fromProcess ==
            IF event.processSessionId # Absent
            THEN TicketOf(c.processTicketMap, event.processSessionId) ELSE NoTicket
        mappedTicket ==
            IF event.ticketId # NoTicket THEN event.ticketId
            ELSE IF fromSession # NoTicket THEN fromSession
            ELSE fromProcess
        lane == eventTargetLane(event)
        activation(pc) == [event |-> event, lane |-> lane, pc |-> pc]
    IN  IF event.type = "agent:error"
        THEN IF mappedTicket = NoTicket
             THEN [withPr EXCEPT !.handled = Append(@, activation("returned"))]
             ELSE [withPr EXCEPT
                     !.errorByTicket =
                         MapSet(@, mappedTicket,
                                IF event.errorMessage # Absent THEN event.errorMessage
                                ELSE "Agent execution error"),
                     !.handled = Append(@, activation("returned"))]
        ELSE IF lane = NoLane
        THEN [withPr EXCEPT !.handled = Append(@, activation("returned"))]
        ELSE [withPr EXCEPT
                !.handled = Append(@, activation("moving")),
                !.moves = Append(@, [by |-> Len(c.handled) + 1,
                                     ticketId |-> event.ticketId,
                                     targetColumn |-> lane,
                                     boardName |-> c.boardName])]

\* handleEvent from the settling of adoService.moveItemToColumn on (lines
\* 204-208): a rejected move rejects the handler, whose caller drops the
\* rejection (line 215)
onMoveSettled(c, i, resolved) ==
    IF ~resolved THEN [c EXCEPT !.handled[i].pc = "moveRejected"]
    ELSE IF c.onBoardMutation
    THEN [c EXCEPT !.handled[i].pc = "refreshing",
                   !.refreshes = Append(@, [by |-> i, afterMoves |-> Len(c.moves)])]
    ELSE [c EXCEPT !.handled[i].pc = "returned"]

\* The 'kanban:lifecycle' listener (lines 212-219)
LifecycleDispatched ==
    \E event \in LifecycleEvents, hasDetail \in BOOLEAN :
        /\ Len(board.handled) < MaxEvents
        /\ board' = IF ~hasDetail THEN board ELSE handleEvent(board, event)

\* The 'pr:created' listener (lines 220-231)
PrCreatedDispatched ==
    \E ticketId \in KanbanTicketIds \cup {NoTicket}, pr \in {NoPr, SomePr} :
        /\ Len(board.handled) < MaxEvents
        /\ board' = IF ticketId = NoTicket THEN board
                    ELSE handleEvent(board, KanbanEvent("pr:created", ticketId, Absent, pr, Absent))

\* The 'pr:completed' listener (lines 232-241)
PrCompletedDispatched ==
    \E ticketId \in KanbanTicketIds \cup {NoTicket} :
        /\ Len(board.handled) < MaxEvents
        /\ board' = IF ticketId = NoTicket THEN board
                    ELSE handleEvent(board, KanbanEvent("pr:completed", ticketId, Absent, NoPr, Absent))

\* process.onAgentError (lines 254-261)
AgentErrorReported ==
    \E sessionId \in {"s1", "s2"}, message \in {"boom"} :
        /\ Len(board.handled) < MaxEvents
        /\ board' = handleEvent(board, KanbanEvent("agent:error", NoTicket, sessionId, NoPr, message))

\* adoService.moveItemToColumn settles for one activation
MoveSettled ==
    \E i \in 1..Len(board.handled), resolved \in BOOLEAN :
        /\ board.handled[i].pc = "moving"
        /\ board' = onMoveSettled(board, i, resolved)

\* onBoardMutation settles for one activation
RefreshSettled ==
    \E i \in 1..Len(board.handled), resolved \in BOOLEAN :
        /\ board.handled[i].pc = "refreshing"
        /\ board' = [board EXCEPT !.handled[i].pc =
                                      IF resolved THEN "returned" ELSE "refreshRejected"]

KanbanInit ==
    /\ \E boardName \in {Absent, "Sprint board"}, onBoardMutation \in BOOLEAN :
           board = NewKanbanController(boardName, onBoardMutation)
    /\ SigIdle
    /\ McpIdle
    /\ AdoIdle
    /\ OrchIdle

KanbanNext ==
    \/ LifecycleDispatched /\ UNCHANGED nonBoardVars
    \/ PrCreatedDispatched /\ UNCHANGED nonBoardVars
    \/ PrCompletedDispatched /\ UNCHANGED nonBoardVars
    \/ AgentErrorReported /\ UNCHANGED nonBoardVars
    \/ MoveSettled /\ UNCHANGED nonBoardVars
    \/ RefreshSettled /\ UNCHANGED nonBoardVars

\* Every IPC call and callback the controller awaits settles in the end
SpecKanban ==
    /\ KanbanInit
    /\ [][KanbanNext]_vars
    /\ WF_vars(MoveSettled /\ UNCHANGED nonBoardVars)
    /\ WF_vars(RefreshSettled /\ UNCHANGED nonBoardVars)

(***************************************************************************)
(* The fallback complexity of a planned task: toPlanTask without a         *)
(* complexity from the manager, over work items whose text carries signal  *)
(* words and has a given length.                                           *)
(***************************************************************************)
MaxSignalLength == 1201

\* Lengths of the normalized text around the two steps of the length score;
\* 0 stands for a text that is not padded
SignalLengths ==
    {0, 499, 500, 501, MaxSignalLength - 2, MaxSignalLength - 1, MaxSignalLength}

TitleTexts ==
    { <<"F", "i", "x", " ", "t", "h", "e", " ", "b", "u", "t", "t", "o", "n">>,
      <<"a", "p", "i">>,
      <<"a", "p", "i", " ", "a", "p", "i">>,
      <<"A", "P", "I", ",", " ", "s", "t", "a", "t", "e">>,
      <<"l", "a", "t", "e", "s", "t", " ", "n", "e", "w", "s">>,
      <<"r", "e", "f", "a", "c", "t", "o", "r">>,
      <<"R", "e", "f", "a", "c", "t", "o", "r", " ", "t", "h", "e", " ", "A", "P", "I", "!">>,
      <<"r", "e", "f", "a", "c", "t", "o", "r", " ", "r", "e", "f", "a", "c", "t", "o", "r", " ", "a", "p", "i">>,
      <<"r", "e", "f", "a", "c", "t", "o", "r", " ", "+", " ", "m", "i", "g", "r", "a", "t", "i", "o", "n">>,
      <<"R", "e", "f", "a", "c", "t", "o", "r", ":", " ", "m", "i", "g", "r", "a", "t", "i", "o", "n", " ", "o", "f", " ", "s", "t", "a", "t", "e">>,
      <<"c", "r", "o", "s", "s", "-", "p", "a", "c", "k", "a", "g", "e", " ", "b", "r", "e", "a", "k", "i", "n", "g", " ", "t", "e", "s", "t">>,
      <<"a", "r", "c", "h", "i", "t", "e", "c", "t", "u", "r", "e", " ", "i", "n", "t", "e", "g", "r", "a", "t", "i", "o", "n", " ", "e", "r", "r", "o", "r", " ", "s", "t", "a", "t", "e">>,
      <<"e", "r", "r", "o", "r", " ", "e", "r", "r", "o", "r", " ", "e", "r", "r", "o", "r", " ", "e", "r", "r", "o", "r", " ", "e", "r", "r", "o", "r">> }

\* A work item whose title, description and acceptance criteria normalize
\* to a text of the given length: the description is padding
WorkItemOf(title, length) ==
    [id |-> 1, title |-> title,
     description |-> IF length > Len(title) + 1
                     THEN [i \in 1..(length - Len(title) - 1) |-> "x"]
                     ELSE <<>>,
     acceptanceCriteria |-> <<>>, tags |-> <<>>, url |-> <<>>]

EstimateFallback ==
    /\ orch.pc = "item"
    /\ orch' = [orch EXCEPT !.pc = "estimated", !.task = <<toPlanTask(orch.item, Absent)>>]

ComplexityInit ==
    /\ \E title \in TitleTexts, length \in SignalLengths :
          orch = [pc |-> "item", item |-> WorkItemOf(title, length), task |-> <<>>]
    /\ SigIdle
    /\ McpIdle
    /\ AdoIdle
    /\ BoardIdle

ComplexityNext ==
    \/ EstimateFallback /\ UNCHANGED nonOrchVars

SpecComplexity == ComplexityInit /\ [][ComplexityNext]_vars

(***************************************************************************)
(* PreviewService: startPreview, stopPreview and stopAll.  mcp is the      *)
(* service: its previews map and the startPreview calls under way, each    *)
(* at the await it has reached; procs are the preview processes spawned.   *)
(***************************************************************************)
MaxStarts == 2
MaxStops == 1

DEFAULT_PORT_START == 8081
DEFAULT_PORT_END == 8999

WorktreePaths == {"/wt/a", "/wt/b"}
MfeNames == {<<"s", "h", "e", "l", "l">>, <<"S", "h", "e", "l", "l", " ">>}
DefaultMfeName == <<"m", "f", "e">>

\* lines 1019-1021, on an absolute path of a case-sensitive platform
buildPreviewKey(worktreePath, mfeName) == <<worktreePath, ToLowerCase(Trim(mfeName))>>

\* lines 1023-1025
isChildRunning(child) == ~child.exited /\ ~child.killed

\* The ports on which a preview process is listening
ListeningPorts(children) ==
    {children[c].port : c \in {d \in 1..Len(children) :
                                  children[d].listening /\ ~children[d].exited}}

NewPreviewService == [previews |-> <<>>, starts |-> <<>>, stops |-> 0]

\* child.kill('SIGTERM') of stopChildProcess for the children of a set
\* (lines 1067-1070)
stopChildProcesses(children, stopped) ==
    [c \in 1..Len(children) |->
        IF c \in stopped /\ isChildRunning(children[c])
        THEN [children[c] EXCEPT !.killed = TRUE]
        ELSE children[c]]

\* startPreview up to `await fs.access` (lines 1176-1183)
startPreview(s, worktreePath, mfeName) ==
    [s EXCEPT !.starts =
        Append(@, [worktreePath |-> worktreePath,
                   mfeName |-> IF Trim(mfeName) = <<>> THEN DefaultMfeName ELSE Trim(mfeName),
                   pc |-> "access", port |-> 0, child |-> 0])]

\* startPreview from fs.access to the first probe of findOpenPort (lines
\* 1183-1198)
afterAccess(s, children, i, accessible) ==
    LET call == s.starts[i]
        key == buildPreviewKey(call.worktreePath, call.mfeName)
        tracked == key \in DOMAIN s.previews
    IN  IF ~accessible THEN [s EXCEPT !.starts[i].pc = "threw"]
        ELSE IF tracked /\ isChildRunning(children[s.previews[key].child])
        THEN [s EXCEPT !.starts[i].pc = "returned",
                       !.starts[i].port = s.previews[key].port]
        ELSE [s EXCEPT !.previews = WithoutKey(@, key),
                       !.starts[i].pc = "probing",
                       !.starts[i].port = DEFAULT_PORT_START]

\* One turn of findOpenPort's loop (lines 1028-1043): the port is available
\* when nothing listens on it
findOpenPortStep(s, children, i) ==
    LET port == s.starts[i].port
    IN  IF port \notin ListeningPorts(children)
        THEN [s EXCEPT !.starts[i].pc = "logfile"]
        ELSE IF port + 1 > DEFAULT_PORT_END
        THEN [s EXCEPT !.starts[i].pc = "threw"]
        ELSE [s EXCEPT !.starts[i].port = port + 1]

\* startPreview from the writing of the log file to waitForHttpReady (lines
\* 1199-1233): the process is spawned and recorded under the key
afterLogFile(s, children, i) ==
    LET call == s.starts[i]
        key == buildPreviewKey(call.worktreePath, call.mfeName)
    IN  [s EXCEPT !.previews = MapSet(@, key, [child |-> Len(children) + 1,
                                              port |-> call.port]),
                  !.starts[i].pc = "waiting",
                  !.starts[i].child = Len(children) + 1]

spawnPreview(children, call) ==
    Append(children, [key |-> buildPreviewKey(call.worktreePath, call.mfeName),
                      port |-> call.port,
                      listening |-> FALSE, exited |-> FALSE, killed |-> FALSE])

\* startPreview's catch (lines 1241-1247)
startFailed(s, i) ==
    LET call == s.starts[i]
        key == buildPreviewKey(call.worktreePath, call.mfeName)
    IN  [s EXCEPT !.previews = WithoutKey(@, key), !.starts[i].pc = "threw"]

PreviewStarted ==
    \E worktreePath \in WorktreePaths, mfeName \in MfeNames :
        /\ Len(mcp.starts) < MaxStarts
        /\ mcp' = startPreview(mcp, worktreePath, mfeName)
        /\ UNCHANGED procs

AccessSettled ==
    \E i \in 1..Len(mcp.starts), accessible \in BOOLEAN :
        /\ mcp.starts[i].pc = "access"
        /\ mcp' = afterAccess(mcp, procs, i, accessible)
        /\ UNCHANGED procs

PortProbed ==
    \E i \in 1..Len(mcp.starts) :
        /\ mcp.starts[i].pc = "probing"
        /\ mcp' = findOpenPortStep(mcp, procs, i)
        /\ UNCHANGED procs

LogFileWritten ==
    \E i \in 1..Len(mcp.starts), written \in BOOLEAN :
        /\ mcp.starts[i].pc = "logfile"
        /\ IF written
           THEN /\ mcp' = afterLogFile(mcp, procs, i)
                /\ procs' = spawnPreview(procs, mcp.starts[i])
           ELSE /\ mcp' = [mcp EXCEPT !.starts[i].pc = "threw"]
                /\ UNCHANGED procs

\* waitForHttpReady settles (lines 1045-1065 and 1234-1247): it throws when
\* the child is not running or the time is up, and returns when the URL
\* answers
ReadySettled ==
    \E i \in 1..Len(mcp.starts), timedOut \in BOOLEAN :
        LET call == mcp.starts[i]
        IN  /\ call.pc = "waiting"
            /\ IF ~isChildRunning(procs[call.child]) \/ timedOut
               THEN /\ mcp' = startFailed(mcp, i)
                    /\ procs' = stopChildProcesses(procs, {call.child})
               ELSE /\ call.port \in ListeningPorts(procs)
                    /\ mcp' = [mcp EXCEPT !.starts[i].pc = "returned"]
                    /\ UNCHANGED procs

\* The dev server binds its port
ChildListens ==
    \E c \in 1..Len(procs) :
        /\ ~procs[c].exited
        /\ ~procs[c].listening
        /\ procs[c].port \notin ListeningPorts(procs)
        /\ procs' = [procs EXCEPT ![c].listening = TRUE]
        /\ UNCHANGED mcp

\* A preview process exits: after a signal, on a port in use, or by itself
ChildExits ==
    \E c \in 1..Len(procs) :
        /\ ~procs[c].exited
        /\ procs' = [procs EXCEPT ![c].exited = TRUE, ![c].listening = FALSE]
        /\ UNCHANGED mcp

\* lines 1251-1258
PreviewStopped ==
    \E worktreePath \in WorktreePaths, mfeName \in MfeNames :
        LET key == buildPreviewKey(worktreePath, mfeName)
        IN  /\ mcp.stops < MaxStops
            /\ IF key \in DOMAIN mcp.previews
               THEN /\ mcp' = [mcp EXCEPT !.previews = WithoutKey(@, key),
                                          !.stops = @ + 1]
                    /\ procs' = stopChildProcesses(procs, {mcp.previews[key].child})
               ELSE /\ mcp' = [mcp EXCEPT !.stops = @ + 1]
                    /\ UNCHANGED procs

\* lines 1290-1294
AllStopped ==
    /\ mcp.stops < MaxStops
    /\ mcp' = [mcp EXCEPT !.previews = <<>>, !.stops = @ + 1]
    /\ procs' = stopChildProcesses(procs,
                    {mcp.previews[key].child : key \in DOMAIN mcp.previews})

PreviewInit ==
    /\ mcp = NewPreviewService
    /\ mcpNow = 0
    /\ procs = <<>>
    /\ stream = <<>>
    /\ SigIdle
    /\ AdoIdle
    /\ OrchIdle
    /\ BoardIdle

PreviewNext ==
    \/ PreviewStarted /\ UNCHANGED <<mcpNow, stream>> /\ UNCHANGED nonMcpVars
    \/ AccessSettled /\ UNCHANGED <<mcpNow, stream>> /\ UNCHANGED nonMcpVars
    \/ PortProbed /\ UNCHANGED <<mcpNow, stream>> /\ UNCHANGED nonMcpVars
    \/ LogFileWritten /\ UNCHANGED <<mcpNow, stream>> /\ UNCHANGED nonMcpVars
    \/ ReadySettled /\ UNCHANGED <<mcpNow, stream>> /\ UNCHANGED nonMcpVars
    \/ ChildListens /\ UNCHANGED <<mcpNow, stream>> /\ UNCHANGED nonMcpVars
    \/ ChildExits /\ UNCHANGED <<mcpNow, stream>> /\ UNCHANGED nonMcpVars
    \/ PreviewStopped /\ UNCHANGED <<mcpNow, stream>> /\ UNCHANGED nonMcpVars
    \/ AllStopped /\ UNCHANGED <<mcpNow, stream>> /\ UNCHANGED nonMcpVars

SpecPreview == PreviewInit /\ [][PreviewNext]_vars

(***************************************************************************)
(* Claims about the signal service                                         *)
(***************************************************************************)
\* The owner the lock table itself holds for a path (no prototype fall-through)
HeldBy(table, p) == IF p \in DOMAIN table THEN table[p] ELSE Undefined

ScnOutcome(k) ==
    CASE k = 1 -> [ret |-> TRUE,  owner |-> Trim(scn.a)]
      [] k = 2 -> [ret |-> FALSE, owner |-> Trim(scn.a)]
      [] k = 3 -> [ret |-> FALSE, owner |-> Trim(scn.a)]
      [] k = 4 -> [ret |-> TRUE,  owner |-> Undefined]
      [] k = 5 -> [ret |-> TRUE,  owner |-> Trim(scn.b)]

\* C1: from a state where path f is unlocked, acquireLock(A,f) returns true,
\* acquireLock(B,f) then returns false, releaseLock(B,f) returns false and
\* leaves f held by A, releaseLock(A,f) returns true, and acquireLock(B,f)
\* then returns true and makes B the owner.
C1_LockExclusivityScenario ==
    /\ Len(scn.obs) = scn.step
    /\ \A k \in 1..scn.step : scn.obs[k] = ScnOutcome(k)

C1_ScenarioCompleted == scn.step = 5

\* C2: in every reachable state, acquireLock(agentId, path) with a non-blank
\* agent id and path returns true, makes the agent the owner of the
\* normalized path and emits 'updated' with the full state when the path is
\* unlocked or already owned by that agent, and returns false without any
\* state change when another agent owns it.
C2_AcquireSucceedsUnlessOwnedByOther ==
    [][ (/\ sigCall'.op = "acquireLock"
         /\ Trim(sigCall'.agentId) # <<>>
         /\ normalizeFilePath(sigCall'.filePath) # <<>>)
        => LET agent == Trim(sigCall'.agentId)
               path == normalizeFilePath(sigCall'.filePath)
           IN  IF HeldBy(locks, path) \in {Undefined, agent}
               THEN /\ sigCall'.ret = TRUE
                    /\ HeldBy(locks', path) = agent
                    /\ sigEmit' = <<[locks |-> locks', announcements |-> announcements']>>
               ELSE /\ sigCall'.ret = FALSE
                    /\ locks' = locks
                    /\ announcements' = announcements
                    /\ sigEmit' = NoEvent ]_vars

\* C11: after any sequence of broadcast calls the announcement list holds at
\* most MAX_ANNOUNCEMENTS (200) entries, and they are the most recent valid
\* announcements in the order they were broadcast; 210 broadcasts leave
\* exactly the last 200, the 10 oldest dropped.
MostRecent(history, n) ==
    IF Len(history) <= n THEN history
    ELSE [i \in 1..n |-> history[Len(history) - n + i]]

C11_AnnouncementsAreMostRecent200 ==
    /\ Len(announcements) <= 200
    /\ announcements = MostRecent(sent, 200)
    /\ Len(sent) = 210 =>
          /\ Len(announcements) = 200
          /\ \A i \in 1..200 : announcements[i] = sent[i + 10]

C11_TenOldestDropped ==
    /\ Len(sent) = 210
    /\ Len(announcements) = 200
    /\ announcements[1].timestamp = 11
    /\ announcements[200].timestamp = 210

(***************************************************************************)
(* Claims about the MCP client                                             *)
(***************************************************************************)
TimedOut(c, id) == Rejected(<<"MCP request timed out: ", c.method[id]>>)

\* The first message of the last handler run that answers request id
FirstAnswer(c, id) ==
    LET hits == {i \in 1..Len(c.received) :
                    /\ c.received[i].kind = "response"
                    /\ ToNumber(c.received[i].id) = id}
    IN  IF hits = {} THEN 0 ELSE CHOOSE i \in hits : \A j \in hits : i <= j

AnswerOutcome(m) ==
    IF m.hasError
    THEN Rejected(IF m.errorMessage # <<>> THEN m.errorMessage ELSE <<"MCP request failed">>)
    ELSE Resolved(m.result)

\* C4: when a response arrives whose id is that of a pending request, the
\* request's timer is cleared, its entry leaves the pending table, and the
\* request is resolved with the response's result, or rejected with the
\* server's error message when the response carries an error.
C4_ResponseSettlesMatchingRequest ==
    [][ \A id \in mcp.pendingRequests :
            (mcp'.received # <<>> /\ FirstAnswer(mcp', id) # 0)
            => /\ id \notin mcp'.timers
               /\ id \notin mcp'.pendingRequests
               /\ mcp.promises[id] = Pending
                  => mcp'.promises[id] = AnswerOutcome(mcp'.received[FirstAnswer(mcp', id)]) ]_vars

C4_ErrorResponseRejected ==
    \E id \in RequestIds :
        /\ FirstAnswer(mcp, id) # 0
        /\ mcp.received[FirstAnswer(mcp, id)].hasError
        /\ mcp.received[FirstAnswer(mcp, id)].errorMessage # <<>>
        /\ mcp.promises[id] = Rejected(mcp.received[FirstAnswer(mcp, id)].errorMessage)
        /\ id \notin mcp.timers

\* C5: a request that gets no response within 30 seconds of being issued is
\* rejected with a timeout error and removed from the pending table: a
\* pending entry always has a live timer that is not overdue, and a request
\* rejected for timing out is no longer pending and was rejected no earlier
\* than 30 seconds in.
C5_TimeoutRejectsAndRemoves ==
    \A id \in RequestIds :
        /\ id \in mcp.pendingRequests => (id \in mcp.timers /\ mcpNow <= mcp.deadline[id])
        /\ mcp.promises[id] = TimedOut(mcp, id)
           => (id \notin mcp.pendingRequests /\ mcpNow >= DEFAULT_TIMEOUT_MS)

C5_RequestTimedOut ==
    \E id \in RequestIds :
        /\ mcp.promises[id] = TimedOut(mcp, id)
        /\ id \notin mcp.pendingRequests
        /\ mcpNow = DEFAULT_TIMEOUT_MS

\* C6: when the child process exits or reports a spawn error, every pending
\* request is rejected and the client state (child process, initialized
\* flag, stdout buffer, pending table) is reset.
C6_ExitOrErrorResetsClient ==
    [][ (mcp'.emitted # <<>> /\ mcp'.emitted[Len(mcp'.emitted)] \in {"exit", "error"})
        => /\ \A id \in mcp.pendingRequests : mcp'.promises[id].state # "pending"
           /\ mcp'.pendingRequests = {}
           /\ mcp'.childProcess = 0
           /\ mcp'.initialized = FALSE
           /\ mcp'.stdoutBuffer = <<>> ]_vars

\* C7: the receive path dispatches exactly one message per complete
\* Content-Length frame, and only once the whole frame has arrived: however
\* the stream of {} frames is cut into chunks, the number of messages
\* dispatched so far is the number of frames fully delivered so far, and each
\* dispatched message is the frame's body.
C7_OneDispatchPerCompleteFrame ==
    /\ stream.dispatched = stream.fed \div Len(EmptyObjectFrame)
    /\ \A i \in 1..Len(mcp.received) : mcp.received[i] = ParseJson(<<"{", "}">>)
    /\ Len(mcp.stdoutBuffer) = stream.fed % Len(EmptyObjectFrame)

\* Two frames, the first complete in the first chunk and the second cut
\* inside its header, have both been dispatched.
C7_TwoFramesSplitDispatched ==
    /\ stream.frames = 2
    /\ stream.bytes = <<>>
    /\ stream.chunks = 2
    /\ Len(mcp.received) = 1
    /\ stream.dispatched = 2

\* C12: every request the client issues gets an integer id strictly greater
\* than the id of every request issued before it, also across a disconnect
\* and reconnect.
C12_RequestIdsStrictlyIncrease ==
    /\ \A i, j \in 1..Len(mcp.issued) :
          i < j => (mcp.issued[i] \in Int /\ mcp.issued[i] < mcp.issued[j])
    /\ \A i \in 1..Len(mcp.issued) : mcp.issued[i] < mcp.nextRequestId

\* A request issued to a second child after the first child's request was
\* rejected by a disconnect
C12_IdAfterReconnect ==
    /\ Len(mcp.issued) = 2
    /\ mcp.promises[1] = Rejected(<<"MCP client disconnected">>)
    /\ mcp.childProcess = 2
    /\ mcp.issued[2] = 2

\* C13: connectToServer disconnects a previously connected child (listeners
\* removed, killed, its pending requests rejected) before it spawns the new
\* one, so the client never holds more than one child process: every child
\* that is still attached or live is the one in childProcess.
C13_ConnectDisconnectsPrevious ==
    /\ [](\A k \in 1..Len(procs) :
              (procs[k].attached \/ procs[k].live) => k = mcp.childProcess)
    /\ [][ (Len(procs') > Len(procs) /\ mcp.childProcess # 0)
           => /\ mcp'.killed = {mcp.childProcess}
              /\ ~procs'[mcp.childProcess].attached
              /\ ~procs'[mcp.childProcess].live
              /\ mcp'.childProcess = Len(procs')
              /\ \A id \in mcp.pendingRequests :
                    /\ id \notin mcp'.pendingRequests
                    /\ id \notin mcp'.timers
                    /\ mcp.promises[id] = Pending
                       => mcp'.promises[id] = Rejected(<<"MCP client disconnected">>) ]_vars

\* A second child was spawned by a connect that killed the first, whose
\* request was rejected
C13_SecondChildReplacedFirst ==
    /\ Len(procs) = 2
    /\ mcp.killed = {1}
    /\ mcp.childProcess = 2
    /\ ~procs[1].live
    /\ mcp.promises[1] = Rejected(<<"MCP client disconnected">>)
    /\ mcp.promises[2] = Pending

\* C15: the exit report's risk is re-inferred only when the worker's risk was
\* left at Medium: 12 or more touched files, or any touched path containing
\* auth, security, credential, secret, token, payment, permission or policy
\* (in any letter case), gives High; otherwise 2 or fewer files gives Low;
\* otherwise Medium.  A supplied Low or High is reported unchanged.
NamesSensitiveArea(file) ==
    \E k \in SensitiveKeywords :
        \E i \in 1..Len(file) :
            /\ i + Len(k) - 1 <= Len(file)
            /\ \A j \in 1..Len(k) : ToLower(file[i + j - 1]) = k[j]

ReportedRisk(supplied, files) ==
    IF supplied # "Medium" THEN supplied
    ELSE IF Len(files) >= 12 \/ \E i \in 1..Len(files) : NamesSensitiveArea(files[i]) THEN "High"
    ELSE IF Len(files) <= 2 THEN "Low"
    ELSE "Medium"

C15_RiskInferredOnlyFromMedium ==
    \A i \in 1..Len(ado.written) :
        ado.written[i].report.riskLevel =
            ReportedRisk(ado.riskLevel, ado.written[i].report.filesTouched)

\* A worker left at Medium reported High for 12 ordinary files
C15_TwelveFilesHigh ==
    /\ ado.riskLevel = "Medium"
    /\ Len(ado.written) = 1
    /\ ado.written[1].report.filesTouched = PlainFiles(12)
    /\ ado.written[1].report.riskLevel = "High"

IsSettled(promise) == promise.state \in {"resolved", "rejected"}

\* What settled request `id` in the step
ByResponse(id) ==
    /\ mcp.promises[id] = Pending
    /\ FirstAnswer(mcp', id) # 0
    /\ mcp'.promises[id] = AnswerOutcome(mcp'.received[FirstAnswer(mcp', id)])
ByTimeout(id) ==
    /\ mcp.promises[id] = Pending
    /\ id \in mcp.timers /\ mcpNow >= mcp.deadline[id]
    /\ mcpNow >= DEFAULT_TIMEOUT_MS
    /\ mcp'.promises[id] = Rejected(<<"MCP request timed out: ", mcp.method[id]>>)
ByChildExit(id) ==
    /\ mcp.promises[id] = Pending
    /\ \E code \in ExitCodes : mcp'.promises[id] = Rejected(<<"MCP server exited", code>>)
    /\ \E k \in 1..Len(procs) : procs[k].live /\ ~procs'[k].live
ByChildError(id) ==
    /\ mcp.promises[id] = Pending
    /\ \E error \in SpawnErrors : mcp'.promises[id] = Rejected(error)
ByDisconnect(id) ==
    /\ mcp.promises[id] = Pending
    /\ mcp'.promises[id] = Rejected(<<"MCP client disconnected">>)
    /\ mcp.childProcess # 0 /\ ~procs'[mcp.childProcess].live
ByFailedWrite(id) ==
    /\ mcp.promises[id] = Unissued
    /\ mcp.childProcess # 0 /\ ~procs[mcp.childProcess].writable
    /\ mcp'.promises[id] = Rejected(<<"MCP server stdin is not writable">>)

EventuallySettled ==
    \A id \in RequestIds :
        (mcp.promises[id] # Unissued) ~> IsSettled(mcp.promises[id])

\* C23 as stated: every request issued by the client is eventually settled
\* exactly once: resolved by its matching response (or rejected with that
\* response's error), or rejected by the 30-second timeout, by the child's
\* exit or error, or by disconnect; none stays pending forever and none is
\* settled again after it was settled.
C23_SettledOnceByListedCauses ==
    /\ [][ \A id \in RequestIds :
              /\ IsSettled(mcp.promises[id]) => mcp'.promises[id] = mcp.promises[id]
              /\ (~IsSettled(mcp.promises[id]) /\ IsSettled(mcp'.promises[id]))
                 => \/ ByResponse(id) \/ ByTimeout(id)
                    \/ ByChildExit(id) \/ ByChildError(id) \/ ByDisconnect(id) ]_vars
    /\ EventuallySettled

\* C23 with the cause the statement leaves out: every request issued by the
\* client is eventually settled exactly once: by its matching response, by
\* the 30-second timeout, by the child's exit or error, by disconnect, or,
\* when the child's stdin is not writable, by the failed write at the moment
\* it is issued; none stays pending forever and none is settled again.
C23_SettledOnce ==
    /\ [][ \A id \in RequestIds :
              /\ IsSettled(mcp.promises[id]) => mcp'.promises[id] = mcp.promises[id]
              /\ (~IsSettled(mcp.promises[id]) /\ IsSettled(mcp'.promises[id]))
                 => \/ ByResponse(id) \/ ByTimeout(id)
                    \/ ByChildExit(id) \/ ByChildError(id) \/ ByDisconnect(id)
                    \/ ByFailedWrite(id) ]_vars
    /\ EventuallySettled

\* One request was answered; the other was rejected by a failed write and
\* its table entry has since been removed by its timer
C23_FailedWriteThenTimerRan ==
    /\ mcp.promises[1].state = "resolved"
    /\ mcp.promises[2] = Rejected(<<"MCP server stdin is not writable">>)
    /\ 2 \notin mcp.pendingRequests
    /\ mcpNow >= DEFAULT_TIMEOUT_MS

\* C30: at every moment the pending-request table contains an entry for a
\* request id exactly when that request has been issued and has not yet been
\* resolved or rejected, including when writing the request to the child's
\* stdin fails.
C30_PendingTableIsUnsettledRequests ==
    \A id \in RequestIds :
        id \in mcp.pendingRequests <=> mcp.promises[id].state = "pending"

(***************************************************************************)
(* Claims about the preview service                                        *)
(***************************************************************************)
PreviewKeys == {buildPreviewKey(w, n) : w \in WorktreePaths, n \in {DefaultMfeName} \cup MfeNames}

LivePreviewsOf(key) ==
    {c \in 1..Len(procs) : procs[c].key = key /\ isChildRunning(procs[c])}

\* C25: under any interleaving of concurrent startPreview, stopPreview and
\* stopAll calls, at most one live preview process spawned by the service
\* exists per (worktree, package-name) pair, and it is the one recorded in the
\* service's process map.
C25_OneLivePreviewPerKey ==
    \A key \in PreviewKeys :
        /\ Cardinality(LivePreviewsOf(key)) <= 1
        /\ \A c \in LivePreviewsOf(key) :
               /\ key \in DOMAIN mcp.previews
               /\ mcp.previews[key].child = c

\* C29: no two preview servers tracked by the service at the same time have
\* the same port, also when their startPreview calls for different
\* (worktree, package-name) pairs run concurrently.
C29_TrackedPreviewsHaveDistinctPorts ==
    \A k1 \in DOMAIN mcp.previews, k2 \in DOMAIN mcp.previews :
        k1 # k2 => mcp.previews[k1].port # mcp.previews[k2].port

(***************************************************************************)
(* Claims about the Kanban controller                                      *)
(***************************************************************************)
\* The lane each lifecycle event stands for
LaneOfEventType(type) ==
    CASE type = "agent:started" -> LaneActive
      [] type = "agent:pr_created" -> LaneReview
      [] type = "pr:created" -> LaneReview
      [] type = "pr:completed" -> LaneClosed
      [] type = "agent:pr_merged" -> LaneResolved
      [] OTHER -> NoLane

\* The i-th handled event is one that stands for a lane
LaneEventHandled(i) ==
    /\ i <= Len(board.handled)
    /\ board.handled[i].event.type \in LaneEventTypes

MoveCalledFor(i) ==
    \E m \in 1..Len(board.moves) :
        /\ board.moves[m].by = i
        /\ board.moves[m].ticketId = board.handled[i].event.ticketId
        /\ board.moves[m].targetColumn = LaneOfEventType(board.handled[i].event.type)

\* The refresh callback was invoked for the i-th event, after its move call
RefreshCalledFor(i) ==
    \E r \in 1..Len(board.refreshes), m \in 1..Len(board.moves) :
        /\ board.refreshes[r].by = i
        /\ board.moves[m].by = i
        /\ m <= board.refreshes[r].afterMoves

\* The move call made for the i-th event failed
MoveRejectedFor(i) ==
    /\ i <= Len(board.handled)
    /\ board.handled[i].pc = "moveRejected"

\* C21: every Kanban lifecycle event that maps to a lane transition triggers
\* a board column-move call for the event's ticket to that lane, followed by
\* the caller-supplied refresh callback when one was given.
C21_MoveThenRefresh ==
    \A i \in 1..MaxEvents :
        /\ [](LaneEventHandled(i) => MoveCalledFor(i))
        /\ (LaneEventHandled(i) /\ board.onBoardMutation) ~> RefreshCalledFor(i)

\* C21 as the code has it: the move call is always made; the refresh callback
\* follows it when one was given and the move call succeeded, and is not
\* invoked for an event whose move call failed, nor when none was given.
C21_MoveThenRefreshOnSuccess ==
    \A i \in 1..MaxEvents :
        /\ [](LaneEventHandled(i) => MoveCalledFor(i))
        /\ [](MoveRejectedFor(i) => ~RefreshCalledFor(i))
        /\ [](\A r \in 1..Len(board.refreshes) :
                 board.onBoardMutation /\ RefreshCalledFor(board.refreshes[r].by))
        /\ (LaneEventHandled(i) /\ board.onBoardMutation)
               ~> (RefreshCalledFor(i) \/ MoveRejectedFor(i))

C21_MergedEventMovedAndRefreshed ==
    \E i \in 1..Len(board.handled) :
        /\ board.handled[i].event.type = "agent:pr_merged"
        /\ board.handled[i].pc = "returned"
        /\ MoveCalledFor(i)
        /\ RefreshCalledFor(i)

(***************************************************************************)
(* Claims about the audit of a worker's branch                             *)
(***************************************************************************)
HighRiskWorkers ==
    {k \in 1..Len(ado.workers) :
        LET path == reportPathOf(ado.workers[k].reportRoot, ado.workers[k].taskId)
        IN  /\ ado.workers[k].terminated
            /\ path \in DOMAIN ado.files
            /\ ado.files[path].riskLevel = "High"}

\* C28: for a worker started by runAgentTask for ticket N whose exit report
\* is High risk, the audit the termination listener starts diffs against main
\* the branch runAgentTask created for ticket N.
C28_AuditDiffsTheWorkersBranch ==
    \A i \in 1..Len(ado.diffs) :
        \A k \in 1..Len(ado.workers) :
            ado.workers[k].taskId = ado.diffs[i].taskId
                => /\ ado.diffs[i].base = MainBranch
                   /\ ado.diffs[i].branchRef = ado.workers[k].branch

(***************************************************************************)
(* Claims about the orchestrator                                           *)
(***************************************************************************)
\* What the listener must have done with the report it just read
DecisionRecorded ==
    LET read == orch'.lastRead[1].read
        content == orch'.lastRead[1].content
        risk == PropertyOf(content, "riskLevel")
    IN  /\ read.sessionId \in DOMAIN orch'.workerTerminationBySessionId
        /\ orch'.workerTerminationBySessionId[read.sessionId] =
              [reportPath |-> read.reportPath,
               decision |-> CASE risk = "Low" -> "auto-approved"
                              [] risk = "High" -> "review-gate"
                              [] OTHER -> "recorded"]
        /\ IF risk = "High"
           THEN /\ Len(orch'.audits) = Len(orch.audits) + 1
                /\ orch'.audits[Len(orch'.audits)].taskId = content.taskId
           ELSE orch'.audits = orch.audits

ReadCompletes == Len(orch'.reads) < Len(orch.reads)

PlanReturned == orch.planning.pc = "returned" /\ orch.planning.items # <<>>

\* The manager's plan names the item under the key of one of the packages
ClaimedByManager(item) ==
    LET response == orch.planning.response
    IN  /\ response.form \in {"json", "fenced"}
        /\ response.value.type = "object"
        /\ \E p \in 1..Len(orch.planning.packages) :
              /\ orch.planning.packages[p].name \in DOMAIN response.value.entries
              /\ \E e \in 1..Len(response.value.entries[orch.planning.packages[p].name]) :
                    response.value.entries[orch.planning.packages[p].name][e].id = item.id

TasksOfPackage(plan, name) ==
    UNION {TaskIds(plan.packages[k].tasks) :
              k \in {j \in 1..Len(plan.packages) : plan.packages[j].packageName = name}}

\* C16: in the fallback match of an item the manager's plan did not claim,
\* the highest-scoring package wins when its score is above zero; when the
\* highest score is shared by several packages, or is zero, the item is left
\* unassigned.
C16_FallbackTiesLeaveUnassigned ==
    PlanReturned =>
        \A i \in 1..Len(orch.planning.items) :
            LET item == orch.planning.items[i]
                packages == orch.planning.packages
                plan == orch.lastPlan[1]
                best == Max({0} \cup {scorePackageMatch(item, packages[p]) : p \in 1..Len(packages)})
                holders == {p \in 1..Len(packages) : scorePackageMatch(item, packages[p]) = best}
            IN  ~ClaimedByManager(item) =>
                    IF best > 0 /\ Cardinality(holders) = 1
                    THEN /\ \A p \in holders : item.id \in TasksOfPackage(plan, packages[p].name)
                         /\ item.id \notin TaskIds(plan.unassigned)
                    ELSE /\ item.id \in TaskIds(plan.unassigned)
                         /\ \A p \in 1..Len(packages) :
                               item.id \notin TasksOfPackage(plan, packages[p].name)

\* C17: before a planning prompt is issued, if the estimated token cost of
\* system prompt + history + next prompt exceeds 80% of the 200,000-token
\* budget, the prior conversation is replaced by exactly one assistant turn
\* holding the manager's summary prefixed STATE_RESTORE:; otherwise the
\* history is left as it was.  (With no prior conversation there is nothing
\* to replace.)
C17_CondenseOnlyAboveEightyPercent ==
    [][ (orch'.planning.pc = "planning" /\ orch.planning.pc # "planning")
        => LET before == orch'.planning.before
               summary == Trim(CollapseWhitespace(orch'.planning.summary))
           IN  IF orch'.planning.estimated * 100 > 200000 * 80 /\ before # <<>>
               THEN /\ Len(orch'.chatHistory) = 1
                    /\ orch'.chatHistory[1].role = "assistant"
                    /\ SubSeq(orch'.chatHistory[1].text, 1, Len(STATE_RESTORE_PREFIX))
                          = STATE_RESTORE_PREFIX
                    /\ summary # <<>>
                       => orch'.chatHistory[1].text = STATE_RESTORE_PREFIX \o <<" ">> \o summary
               ELSE orch'.chatHistory = before ]_vars

\* C18: generateSprintPlan called with zero work items returns an empty plan
\* (no packages, no unassigned items) without calling the manager agent and
\* without changing the stored planning conversation.
C18_NoItemsNoManagerCall ==
    [][ (orch'.planCalls = orch.planCalls + 1 /\ orch'.planning.items = <<>>)
        => /\ orch'.planning.pc = "returned"
           /\ orch'.lastPlan # <<>>
           /\ orch'.lastPlan[1].packages = <<>>
           /\ orch'.lastPlan[1].unassigned = <<>>
           /\ orch'.managerCalls = orch.managerCalls
           /\ orch'.chatHistory = orch.chatHistory ]_vars

\* An empty board was planned after a board with items: the conversation of
\* the first call is still there and the manager was asked once
C18_EmptyPlanAfterConversation ==
    /\ orch.planCalls = 2
    /\ orch.planning.pc = "returned" /\ orch.planning.items = <<>>
    /\ orch.lastPlan = <<EmptyPlan("claude-code")>>
    /\ Len(orch.chatHistory) = 2
    /\ orch.managerCalls = 1

\* C19: one work item tagged ["ui"] and one remote package whose name is in
\* the item's title: generateSprintPlan then executeSprintPlan give a plan
\* that assigns the item to the package and a result whose worker for the
\* package has type gemini-cli, status busy and exactly one task.
C19_UiItemRoutedToDesignAgent ==
    (/\ PlanReturned
     /\ orch.lastExecution # <<>>
     /\ Len(orch.planning.items) = 1 /\ Len(orch.planning.packages) = 1
     /\ orch.planning.items[1].tags = <<<<"u", "i">>>>
     /\ orch.planning.packages[1].role = "remote"
     /\ Includes(orch.planning.items[1].title, orch.planning.packages[1].name))
    => LET plan == orch.lastPlan[1]
           workers == orch.lastExecution[1].workers
       IN  /\ Len(plan.packages) = 1
           /\ plan.packages[1].packageName = orch.planning.packages[1].name
           /\ TaskIds(plan.packages[1].tasks) = {orch.planning.items[1].id}
           /\ plan.unassigned = <<>>
           /\ Len(workers) = 1
           /\ workers[1].packageName = orch.planning.packages[1].name
           /\ workers[1].workerType = "gemini-cli"
           /\ workers[1].status = "busy"
           /\ Len(workers[1].tasks) = 1

\* How often the word occurs in the text
Occurrences(signalText, word) ==
    Cardinality({i \in 1..(Len(signalText) - Len(word) + 1) :
                    SubSeq(signalText, i, i + Len(word) - 1) = word})

RECURSIVE AllOccurrences(_, _)
AllOccurrences(signalText, words) ==
    IF words = {} THEN 0
    ELSE LET word == CHOOSE w \in words : TRUE
         IN  Occurrences(signalText, word) + AllOccurrences(signalText, words \ {word})

\* C22: fallback complexity estimation counts occurrences of the high-signal
\* words (weight 2 each) and medium-signal words (weight 1 each) in the
\* normalized title+description+acceptance-criteria text, adds a length
\* bonus of 0, 1 or 2 for text of fewer than 500, at least 500, or at least
\* 1200 characters, and maps the total to High when it is at least 5,
\* Medium when it is at least 2, and Low otherwise.
C22_ComplexityFromSignalsAndLength ==
    orch.pc = "estimated" =>
        LET signalText == normalizeText(orch.item.title \o <<" ">> \o orch.item.description
                                        \o <<" ">> \o orch.item.acceptanceCriteria)
            bonus == IF Len(signalText) >= 1200 THEN 2
                     ELSE IF Len(signalText) >= 500 THEN 1 ELSE 0
            total == 2 * AllOccurrences(signalText,
                            {<<"r", "e", "f", "a", "c", "t", "o", "r">>, <<"m", "i", "g", "r", "a", "t", "i", "o", "n">>, <<"a", "r", "c", "h", "i", "t", "e", "c", "t", "u", "r", "e">>,
                             <<"c", "r", "o", "s", "s", "-", "p", "a", "c", "k", "a", "g", "e">>, <<"b", "r", "e", "a", "k", "i", "n", "g">>})
                     + AllOccurrences(signalText,
                            {<<"a", "p", "i">>, <<"s", "t", "a", "t", "e">>, <<"i", "n", "t", "e", "g", "r", "a", "t", "i", "o", "n">>, <<"t", "e", "s", "t">>, <<"e", "r", "r", "o", "r">>})
                     + bonus
        IN  orch.task[1].complexity =
                IF total >= 5 THEN "High" ELSE IF total >= 2 THEN "Medium" ELSE "Low"

\* How many tasks of the list are the item
TimesIn(tasks, id) == Len(SelectSeq(tasks, LAMBDA task : task.id = id))

RECURSIVE TimesInPackages(_, _)
TimesInPackages(packages, id) ==
    IF packages = <<>> THEN 0
    ELSE TimesIn(Head(packages).tasks, id) + TimesInPackages(Tail(packages), id)

\* C27: in every plan returned by generateSprintPlan, for any manager
\* response, each input work item appears exactly once: in the task list of
\* exactly one package or in the unassigned list, never in both and never
\* more than once.
C27_EachItemExactlyOnce ==
    PlanReturned =>
        \A i \in 1..Len(orch.planning.items) :
            TimesInPackages(orch.lastPlan[1].packages, orch.planning.items[i].id)
              + TimesIn(orch.lastPlan[1].unassigned, orch.planning.items[i].id) = 1

(***************************************************************************)
(* Claims about the board service                                          *)
(***************************************************************************)
\* The first PATCH of the move was refused with a read-only board column
ColumnReportedReadOnly ==
    /\ board.firstReply # <<>>
    /\ board.firstReply[1] \in ReadOnlyColumnReplies

\* C20: in moveItemToColumn, when the name-and-state PATCH is rejected
\* because the external system reports the board-column field read-only,
\* the operation retries with only the state-field patch if the target
\* column has at least one mapped state, and raises an error if it has none.
C20_ReadOnlyColumnRetriesStateOnly ==
    ColumnReportedReadOnly =>
        LET target == board.target[1]
        IN  /\ board.patches[1][1] = [path |-> BoardColumnPath, value |-> target.name]
            /\ IF target.stateMappings # <<>>
               THEN /\ board.patches[1] = << [path |-> BoardColumnPath, value |-> target.name],
                                             [path |-> StatePath, value |-> target.stateMappings[1]] >>
                    /\ Len(board.patches) = 2
                    /\ board.patches[2] = << [path |-> StatePath, value |-> target.stateMappings[1]] >>
                    /\ board.pc \in {"retrying", "returned", "threw"}
               ELSE /\ Len(board.patches) = 1
                    /\ board.pc = "threw"
                    /\ board.outcome.kind = "threw"
                    /\ board.outcome.message # ErrorMessage(board.firstReply[1])

\* The mixed-case report was answered by a state-only retry that succeeded
C20_RetriedAfterReadOnlyReport ==
    /\ ColumnReportedReadOnly
    /\ MessageIncludes(board.firstReply[1].body, <<"'", "R", "e", "a", "d", "O", "n", "l", "y", "'">>)
    /\ board.pc = "returned"
    /\ Len(board.patches) = 2
    /\ board.outcome.state = <<"A", "c", "t", "i", "v", "e">>

(***************************************************************************)
(* Claims about the worker agent and the repair monitor                    *)
(***************************************************************************)
TerminateKills == {i \in 1..Len(ado.kills) : ado.kills[i].by = "terminate"}
TerminatedEvents == {i \in 1..Len(ado.events) : ado.events[i].event = "agent:terminated"}
TerminateInFlight == \E k \in Callers : ado.calls[k].pc \in {"building", "writing"}

C24_EveryTerminateReturnsReportPath ==
    \A k \in Callers :
        ado.calls[k].pc = "returned" => ado.calls[k].ret = ReportPath

\* C8: with the design reference present and a critic that never reports a
\* match, verifyUi returns after exactly 3 captures, 3 critic calls and 2
\* corrections, with an unverified result of 3 attempts that carries the
\* feedback of the last critic call; no run makes more than 3 captures or
\* more than 2 corrections.
C8_ThreeCyclesTwoCorrections ==
    /\ ado.verify.captures <= 3
    /\ ado.verify.critics <= ado.verify.captures
    /\ ado.verify.corrections <= 2
    /\ (/\ ado.figmaReference
        /\ ado.verify.pc = "returned"
        /\ \A i \in 1..Len(ado.verify.verdicts) : ~ado.verify.verdicts[i])
       => /\ ado.verify.captures = 3
          /\ ado.verify.critics = 3
          /\ ado.verify.corrections = 2
          /\ ado.verify.result = [verified |-> FALSE, attempts |-> 3,
                                  feedback |-> ado.verify.lastVerdict.feedback]

C8_UnverifiedAfterThreeAttempts ==
    /\ ado.figmaReference
    /\ ado.verify.pc = "returned"
    /\ ado.verify.verdicts = <<FALSE, FALSE, FALSE>>
    /\ ado.verify.corrections = 2
    /\ ado.verify.result.feedback = VisualMatchFalse

\* The last 3 polls read all reported a build error with one signature
SameErrorThrice(log) ==
    /\ Len(log) = 3
    /\ \A i \in 1..3 : log[i].hasError /\ log[i].signature = log[1].signature

\* C9: when the repair monitor reads a poll result, it force-kills the agent
\* process, broadcasts the stuck announcement for the session and stops its
\* interval exactly when the last 3 results read all reported a build error
\* with the identical signature; a result without an error resets the repeat
\* count to zero.
C9_StuckAfterThreeIdenticalPolls ==
    [][ ado'.polls = ado.polls - 1
        => /\ IF SameErrorThrice(ado'.pollLog)
              THEN /\ ado'.stuck = ado.stuck + 1
                   /\ ado'.kills = Append(ado.kills, [by |-> "repairMonitor", session |-> Session])
                   /\ ~ado'.repairMonitor
                   /\ Len(announcements') = Len(announcements) + 1
                   /\ announcements'[Len(announcements')].agentId = Session
                   /\ announcements'[Len(announcements')].message = StuckMessage
              ELSE /\ ado'.stuck = ado.stuck
                   /\ ado'.kills = ado.kills
                   /\ announcements' = announcements
           /\ ~ado'.pollLog[Len(ado'.pollLog)].hasError => ado'.repairAttempts = 0 ]_vars

C9_StuckReported ==
    /\ ado.stuck = 1
    /\ ado.alive
    /\ SameErrorThrice(ado.pollLog)
    /\ Len(announcements) = 1
    /\ announcements[1].message = StuckMessage
    /\ \E i \in 1..Len(ado.kills) : ado.kills[i].by = "repairMonitor"

StuckBroadcasts ==
    {i \in 1..Len(sent) : sent[i].agentId = Session /\ sent[i].message = StuckMessage}
MonitorKills == {i \in 1..Len(ado.kills) : ado.kills[i].by = "repairMonitor"}

\* C26: for one runAgentTask run, the "stuck" broadcast and the forced kill
\* are issued at most once, whatever the interleaving of repair-monitor poll
\* callbacks whose terminal-error reads overlap, and never after the worker
\* has been terminated.
C26_StuckAtMostOnce ==
    /\ [](Cardinality(StuckBroadcasts) <= 1 /\ Cardinality(MonitorKills) <= 1)
    /\ [][ado'.stuck > ado.stuck => ~ado.isTerminated]_vars

====
